---- MODULE Spec2Model ----
(***************************************************************************)
(* Content script of the LeetCode assistant extension                      *)
(* (src/src/scripts/content-script/content-script.tsx): the update         *)
(* coalescer, the debounced navigation detection and the run-result poll.  *)
(*                                                                         *)
(* One step of the model is one callback of the event loop: a window       *)
(* message, a mutation-observer delivery, a timer callback, a promise      *)
(* reaction (microtask) or the beforeunload handler.  A promise reaction   *)
(* queued by a callback runs before any other callback, so while one is    *)
(* pending no other action is enabled.                                     *)
(***************************************************************************)
EXTENDS Integers, Sequences, FiniteSets, TLC

VARIABLES
  \* module state of the content script
  problemDetails, lastSentCode, lastTestResult, lastSentTestResult,
  activeIntervals, debounceTimer, lastSeenTitle,
  \* what the script installed: observers, listeners, the redux slug
  observers, listeners, storeSlug,
  \* host page: location and DOM
  pathname, domTitle, runButton, resultDiv,
  \* event loop: live timers and queued promise reactions
  liveTimeouts, intervals, pendingParse, pendingResult,
  \* message relay boundary and the callback that ran last
  outbox, lastUpdate, lastOp,
  \* the polls that were running when the test-result memory was last reset
  \* for a new problem, up to the delivery of what they find
  stalePolls,
  \* one call of callGeminiApi: its arguments, where the generator stands,
  \* the request it made, its locals, what it emitted and how it ended
  args, position, request, parts, consumed, events,
  hasThinking, thinkingStartTime, thinkingEndTime, clock, chunks,
  failure, thrown,
  \* one call of parseLeetCodetestResult: the page it reads, what it returns
  doc, parsed,
  \* the chat session: the messages of the current chat, the request in
  \* flight and the events it received, the page context, the error shown,
  \* the "chats" store and what the last call of loadChats returned
  thread, flight, context, surfaced, store, loaded,
  \* the "saved-responses" store and what the last call of
  \* saveSavedResponse did
  savedResponses, lastSave

scriptVars == <<problemDetails, lastSentCode, lastTestResult, lastSentTestResult,
                activeIntervals, debounceTimer, lastSeenTitle,
                observers, listeners, storeSlug,
                pathname, domTitle, runButton, resultDiv,
                liveTimeouts, intervals, pendingParse, pendingResult,
                outbox, lastUpdate, lastOp, stalePolls>>

callVars == <<args, position, request, parts, consumed, events,
              hasThinking, thinkingStartTime, thinkingEndTime, clock, chunks,
              failure, thrown>>

parseVars == <<doc, parsed>>

chatVars == <<thread, flight, context, surfaced, store, loaded>>

savedVars == <<savedResponses, lastSave>>

vars == <<scriptVars, callVars, parseVars, chatVars, savedVars>>

\* a callback of the content script touches nothing else
ScriptOnly == UNCHANGED <<callVars, parseVars, chatVars, savedVars>>

(***************************************************************************)
(* Values                                                                  *)
(***************************************************************************)
Null == "<null>"              \* JS null, where the other values are strings
Undefined == "<undefined>"    \* JS undefined, where the other values are strings
NullRec == [null |-> TRUE]    \* JS null, where the other values are records
NoPending == [none |-> TRUE]  \* no promise reaction queued

\* clearTimeout / setTimeout handles: 0 stands for "no handle" (null)
NoTimer == 0

maxChecks == 40

Codes == {"", "a"}

\* A pathname is written as its tokens: the separator "/" and the segments.
PathTwoSum == <<"/", "problems", "/", "two-sum", "/">>
PathAddTwo == <<"/", "problems", "/", "add-two-numbers", "/", "description", "/">>
PathProblemset == <<"/", "problemset", "/", "all", "/">>
PathProblemsOnly == <<"/", "problems", "/">>
Paths == {PathTwoSum, PathAddTwo, PathProblemset, PathProblemsOnly}

\* textContent of the .text-title-large element; Undefined when there is none
DomTitles == {Undefined, "Two Sum", "Add Two Numbers"}
\* the same, with a title the page renders with surrounding white space
PaddedTitles == DomTitles \cup {" Two Sum "}

\* The slug under which the site serves the problem with a given title
SlugOf(title) ==
  CASE title = "Two Sum" -> "two-sum"
    [] title = "Add Two Numbers" -> "add-two-numbers"
    [] OTHER -> Undefined

\* String.prototype.trim on the title texts of the model
Trim(s) == IF s = " Two Sum " THEN "Two Sum" ELSE s

Range(s) == {s[i] : i \in 1..Len(s)}

(***************************************************************************)
(* window.location.pathname.split("/")                                     *)
(***************************************************************************)
RECURSIVE SplitFrom(_, _, _, _)
SplitFrom(tokens, i, cur, out) ==
  IF i > Len(tokens) THEN Append(out, cur)
  ELSE IF tokens[i] = "/" THEN SplitFrom(tokens, i + 1, "", Append(out, cur))
  ELSE SplitFrom(tokens, i + 1, tokens[i], out)

Split(tokens) == SplitFrom(tokens, 1, "", <<>>)

\* pathSegments[k] with JS (zero-based) indexing
At(segs, k) == IF k + 1 <= Len(segs) THEN segs[k + 1] ELSE Undefined

Falsy(s) == s = Undefined \/ s = Null \/ s = ""

(***************************************************************************)
(* The result area of the page and what the parser makes of it             *)
(***************************************************************************)
TerminalKeywords == {"Wrong Answer", "Accepted", "Compile Error", "Runtime Error"}

\* What parseLeetCodetestResult extracts from the Input/Output/Expected
\* blocks of a result panel: a list of test cases.
CasesPass == <<[output |-> "[0,1]", expected |-> "[0,1]"]>>

\* The [data-e2e-locator="console-result"] element: its text, whether it
\* has an ancestor .flex-1.overflow-y-auto, and the cases that panel shows.
NoResultDiv == [present |-> FALSE, text |-> "", inPanel |-> FALSE, cases |-> <<>>]
ResultDivs ==
  { NoResultDiv,
    [present |-> TRUE, text |-> "Accepted", inPanel |-> TRUE, cases |-> CasesPass],
    [present |-> TRUE, text |-> "Accepted", inPanel |-> FALSE, cases |-> <<>>],
    [present |-> TRUE, text |-> "Compile Error", inPanel |-> FALSE, cases |-> <<>>] }

\* textContent.includes(keyword) on the result texts of the model
Includes(div, keyword) == div.present /\ div.text = keyword

CompileErrorCases ==
  <<[output |-> "Compile Error: Unknown compile error",
     expected |-> "NA (compile error)"]>>
RuntimeErrorCases ==
  <<[output |-> "Runtime Error: Unknown runtime error", expected |-> Null]>>

\* parseLeetCodetestResult(container): container is "body" or "panel"
parseLeetCodetestResult(container, div) ==
  IF container = "body" /\ Includes(div, "Compile Error")
    THEN [cases |-> CompileErrorCases]
  ELSE IF container = "body" /\ Includes(div, "Runtime Error")
    THEN [cases |-> RuntimeErrorCases]
  ELSE IF container = "panel" /\ Includes(div, "Compile Error")
    THEN [cases |-> CompileErrorCases]
  ELSE [cases |-> div.cases]

\* parseLeetCodeProblem(): the details read from the page; only the title
\* takes part in the content script's decisions.
parseLeetCodeProblem(titleText) ==
  [title |-> IF Falsy(titleText) \/ Falsy(Trim(titleText)) THEN "" ELSE Trim(titleText)]

\* JSON.stringify of a test result (null or a list of cases), as the list
\* of its tokens; string values are quoted, null is the bare token.
RECURSIVE StringifyCases(_, _)
StringifyCases(cases, i) ==
  IF i > Len(cases) THEN <<"]">>
  ELSE <<"{", "output", "q", cases[i].output, "expected">>
       \o (IF cases[i].expected = Null THEN <<"null">> ELSE <<"q", cases[i].expected>>)
       \o <<"}">> \o StringifyCases(cases, i + 1)

JSONstringify(result) ==
  IF result = NullRec THEN <<"null">> ELSE <<"[">> \o StringifyCases(result.cases, 1)

(***************************************************************************)
(* sendUnifiedUpdate(code): the coalescer.  Given the module state it       *)
(* reads, returns the last-sent values it leaves and the messages it hands  *)
(* to chrome.runtime.sendMessage (none or one).                             *)
(***************************************************************************)
Suppressed(sentCode, sentResult) ==
  [lastSentCode |-> sentCode, lastSentTestResult |-> sentResult, out |-> <<>>]

\* the coalescer suppressing unless both the code and the result changed
\* (line 35 with || for &&)
sendUnifiedUpdate_BothRequired(code, details, testResult, sentCode, sentResult, path) ==
  LET problemSlug == At(Split(path), 2)
      codeChanged == code # sentCode
      testResultChanged == JSONstringify(testResult) # JSONstringify(sentResult)
  IN  IF details = NullRec \/ Falsy(problemSlug) THEN Suppressed(sentCode, sentResult)
      ELSE IF ~codeChanged \/ ~testResultChanged THEN Suppressed(sentCode, sentResult)
      ELSE [lastSentCode |-> code,
            lastSentTestResult |-> testResult,
            out |-> <<[type |-> "PROBLEM_UPDATE",
                       problemSlug |-> problemSlug,
                       title |-> details.title,
                       code |-> code,
                       testResult |-> testResult]>>]

\* the coalescer without its slug check (lines 27-29 left out)
sendUnifiedUpdate_NoSlugCheck(code, details, testResult, sentCode, sentResult, path) ==
  LET problemSlug == At(Split(path), 2)
      codeChanged == code # sentCode
      testResultChanged == JSONstringify(testResult) # JSONstringify(sentResult)
  IN  IF details = NullRec THEN Suppressed(sentCode, sentResult)
      ELSE IF ~codeChanged /\ ~testResultChanged THEN Suppressed(sentCode, sentResult)
      ELSE [lastSentCode |-> code,
            lastSentTestResult |-> testResult,
            out |-> <<[type |-> "PROBLEM_UPDATE",
                       problemSlug |-> problemSlug,
                       title |-> details.title,
                       code |-> code,
                       testResult |-> testResult]>>]

\* the coalescer without its duplicate check (lines 35-37 left out)
sendUnifiedUpdate_NoDedup(code, details, testResult, sentCode, sentResult, path) ==
  LET problemSlug == At(Split(path), 2)
  IN  IF details = NullRec \/ Falsy(problemSlug) THEN Suppressed(sentCode, sentResult)
      ELSE [lastSentCode |-> code,
            lastSentTestResult |-> testResult,
            out |-> <<[type |-> "PROBLEM_UPDATE",
                       problemSlug |-> problemSlug,
                       title |-> details.title,
                       code |-> code,
                       testResult |-> testResult]>>]

\* the coalescer remembering the code of a call it suppresses (line 55
\* moved before the tests)
sendUnifiedUpdate_RemembersSuppressed(code, details, testResult, sentCode, sentResult, path) ==
  LET problemSlug == At(Split(path), 2)
      codeChanged == code # sentCode
      testResultChanged == JSONstringify(testResult) # JSONstringify(sentResult)
  IN  IF details = NullRec THEN Suppressed(code, sentResult)
      ELSE IF Falsy(problemSlug) THEN Suppressed(code, sentResult)
      ELSE IF ~codeChanged /\ ~testResultChanged THEN Suppressed(code, sentResult)
      ELSE [lastSentCode |-> code,
            lastSentTestResult |-> testResult,
            out |-> <<[type |-> "PROBLEM_UPDATE",
                       problemSlug |-> problemSlug,
                       title |-> details.title,
                       code |-> code,
                       testResult |-> testResult]>>]

sendUnifiedUpdate(code, details, testResult, sentCode, sentResult, path) ==
  LET problemSlug == At(Split(path), 2)
      codeChanged == code # sentCode
      testResultChanged == JSONstringify(testResult) # JSONstringify(sentResult)
  IN  IF details = NullRec THEN Suppressed(sentCode, sentResult)
      ELSE IF Falsy(problemSlug) THEN Suppressed(sentCode, sentResult)
      ELSE IF ~codeChanged /\ ~testResultChanged THEN Suppressed(sentCode, sentResult)
      ELSE [lastSentCode |-> code,
            lastSentTestResult |-> testResult,
            out |-> <<[type |-> "PROBLEM_UPDATE",
                       problemSlug |-> problemSlug,
                       title |-> details.title,
                       code |-> code,
                       testResult |-> testResult]>>]

\* The relay after a callback has handed `out` to sendMessage: outbox is
\* what this callback sent, lastUpdate the most recent PROBLEM_UPDATE.
Relay(out) ==
  /\ outbox' = out
  /\ lastUpdate' = IF out = <<>> THEN lastUpdate ELSE out[Len(out)]

(***************************************************************************)
(* Timers.  setTimeout and setInterval share one pool of handles, and so   *)
(* do the clear calls.  The script only stores handles and passes them     *)
(* back to the clear calls, so a new handle is drawn as the least positive *)
(* one that nothing holds any more: it differs from every live timer and   *)
(* from every handle the script still stores, as a browser's does.         *)
(***************************************************************************)
HeldTimers ==
  liveTimeouts \cup DOMAIN intervals \cup {debounceTimer} \cup Range(activeIntervals)

\* the handle returned by setTimeout / setInterval in a callback that has
\* cleared and dropped the handles in `released`
NewTimer(released) ==
  LET held == HeldTimers \ released
  IN  CHOOSE i \in 1..(Cardinality(held) + 1) :
        i \notin held /\ \A j \in 1..(i - 1) : j \in held

Restrict(f, S) == [x \in S |-> f[x]]

Idle == pendingParse = NoPending /\ pendingResult = NoPending

\* a poll that has stopped and delivered is no poll of an earlier problem
StillLive == stalePolls' = stalePolls \cap DOMAIN intervals'

(***************************************************************************)
(* window "message" listener, lines 66-76                                  *)
(***************************************************************************)
CodeUpdate(code) ==
  /\ Idle
  /\ "message" \in listeners
  /\ LET r == sendUnifiedUpdate(code, problemDetails, lastTestResult,
                                lastSentCode, lastSentTestResult, pathname)
     IN  /\ lastSentCode' = r.lastSentCode
         /\ lastSentTestResult' = r.lastSentTestResult
         /\ Relay(r.out)
  /\ lastOp' = "CodeUpdate"
  /\ stalePolls' = stalePolls \cap DOMAIN intervals
  /\ ScriptOnly
  /\ UNCHANGED <<problemDetails, lastTestResult, activeIntervals, debounceTimer,
                 lastSeenTitle, observers, listeners, storeSlug, pathname,
                 domTitle, runButton, resultDiv, liveTimeouts, intervals,
                 pendingParse, pendingResult>>

(***************************************************************************)
(* handleProblemChange(), lines 92-124: the synchronous part.  The parser  *)
(* reads the page at the call; its promise settles in ParseResolve or      *)
(* ParseReject.                                                            *)
(***************************************************************************)
ProblemShaped(path) ==
  LET pathSegments == Split(path)
  IN  Len(pathSegments) > 2 /\ At(pathSegments, 1) = "problems"

handleProblemChange ==
  IF ProblemShaped(pathname)
    THEN /\ pendingParse' = [problemSlug |-> At(Split(pathname), 2),
                             details |-> parseLeetCodeProblem(domTitle)]
         /\ UNCHANGED <<problemDetails, storeSlug>>
    ELSE /\ pendingParse' = NoPending
         /\ IF problemDetails # NullRec
              THEN problemDetails' = NullRec /\ storeSlug' = Null
              ELSE UNCHANGED <<problemDetails, storeSlug>>

\* problemDetails?.title
TitleOf(details) == IF details = NullRec THEN Undefined ELSE details.title

ParseResolve ==
  /\ pendingParse # NoPending
  /\ pendingParse' = NoPending
  /\ IF pendingParse.details.title # TitleOf(problemDetails)
       THEN /\ storeSlug' = pendingParse.problemSlug
            /\ problemDetails' = pendingParse.details
            /\ lastTestResult' = NullRec
            /\ IF lastSentCode # Null
                 THEN LET r == sendUnifiedUpdate(lastSentCode, pendingParse.details,
                                                 NullRec, lastSentCode, NullRec, pathname)
                      IN  /\ lastSentCode' = r.lastSentCode
                          /\ lastSentTestResult' = r.lastSentTestResult
                          /\ Relay(r.out)
                 ELSE /\ lastSentTestResult' = NullRec
                      /\ Relay(<<>>)
                      /\ UNCHANGED lastSentCode
       ELSE /\ Relay(<<>>)
            /\ UNCHANGED <<storeSlug, problemDetails, lastTestResult,
                           lastSentCode, lastSentTestResult>>
  /\ lastOp' = "ParseResolve"
  /\ stalePolls' = IF /\ pendingParse.details.title # TitleOf(problemDetails)
                      /\ ~Falsy(TitleOf(problemDetails))
                     THEN DOMAIN intervals ELSE stalePolls \cap DOMAIN intervals
  /\ ScriptOnly
  /\ UNCHANGED <<activeIntervals, debounceTimer, lastSeenTitle, observers,
                 listeners, pathname, domTitle, runButton, resultDiv,
                 liveTimeouts, intervals, pendingResult>>

\* the catch callback forgetting the known problem as well
ParseReject_ForgetsProblem ==
  /\ pendingParse # NoPending
  /\ pendingParse' = NoPending
  /\ storeSlug' = Null
  /\ problemDetails' = NullRec
  /\ Relay(<<>>)
  /\ lastOp' = "ParseReject"
  /\ stalePolls' = stalePolls \cap DOMAIN intervals
  /\ ScriptOnly
  /\ UNCHANGED <<lastSentCode, lastTestResult, lastSentTestResult,
                 activeIntervals, debounceTimer, lastSeenTitle, observers,
                 listeners, pathname, domTitle, runButton, resultDiv,
                 liveTimeouts, intervals, pendingResult>>

ParseReject ==
  /\ pendingParse # NoPending
  /\ pendingParse' = NoPending
  /\ storeSlug' = Null
  /\ Relay(<<>>)
  /\ lastOp' = "ParseReject"
  /\ stalePolls' = stalePolls \cap DOMAIN intervals
  /\ ScriptOnly
  /\ UNCHANGED <<problemDetails, lastSentCode, lastTestResult, lastSentTestResult,
                 activeIntervals, debounceTimer, lastSeenTitle, observers,
                 listeners, pathname, domTitle, runButton, resultDiv,
                 liveTimeouts, intervals, pendingResult>>

(***************************************************************************)
(* The two mutation observers on document.body, lines 130-175.  Every DOM  *)
(* change below delivers one record to each observer still connected.      *)
(***************************************************************************)
NoButton == [present |-> FALSE, marked |-> FALSE, listening |-> FALSE, attached |-> 0]
NewButton == [present |-> TRUE, marked |-> FALSE, listening |-> FALSE, attached |-> 0]

\* attachRunButtonListener without the data-monitor-attached test (line 161
\* reduced to `if (runButton)`)
attachRunButtonListener_NoMark(button) ==
  IF button.present
    THEN [present |-> TRUE, marked |-> TRUE, listening |-> TRUE,
          attached |-> button.attached + 1]
    ELSE button

\* attachRunButtonListener(), lines 157-165, on the run button of the page;
\* `attached` counts the calls of addEventListener on the element
attachRunButtonListener(button) ==
  IF button.present /\ ~button.marked
    THEN [present |-> TRUE, marked |-> TRUE, listening |-> TRUE,
          attached |-> button.attached + 1]
    ELSE button

\* clearTimeout(handle) / clearInterval(handle) on the timer tables
ClearedTimeouts(handles) == liveTimeouts \ handles
ClearedIntervals(handles) == Restrict(intervals, DOMAIN intervals \ handles)

\* the observer callback arming a timer without clearing the pending one
\* (lines 133-135 left out)
ObserverCallback_NoClear ==
  /\ debounceTimer' = NewTimer({})
  /\ liveTimeouts' = liveTimeouts \cup {NewTimer({})}
  /\ intervals' = intervals

\* the callback of `observer`, lines 132-148: re-arm the debounce timer
ObserverCallback ==
  LET pending == IF debounceTimer # NoTimer THEN {debounceTimer} ELSE {}
  IN  /\ debounceTimer' = NewTimer({debounceTimer})
      /\ liveTimeouts' = ClearedTimeouts(pending) \cup {NewTimer({debounceTimer})}
      /\ intervals' = ClearedIntervals(pending)

ObserverCallbacks(button) ==
  /\ IF "observer" \in observers
       THEN ObserverCallback
       ELSE UNCHANGED <<debounceTimer, liveTimeouts, intervals>>
  /\ runButton' = IF "buttonObserver" \in observers
                    THEN attachRunButtonListener(button)
                    ELSE button

MutationFrame ==
  /\ Relay(<<>>)
  /\ lastOp' = "Mutation"
  /\ StillLive
  /\ ScriptOnly
  /\ UNCHANGED <<problemDetails, lastSentCode, lastTestResult, lastSentTestResult,
                 activeIntervals, lastSeenTitle, observers, listeners, storeSlug,
                 pathname, pendingParse, pendingResult>>

\* the page renders another title (or removes the title element)
TitleMutation(text) ==
  /\ Idle
  /\ text # domTitle
  /\ domTitle' = text
  /\ resultDiv' = resultDiv
  /\ ObserverCallbacks(runButton)
  /\ MutationFrame

\* the page renders, replaces or removes the run button
RunButtonMutation(present) ==
  /\ Idle
  /\ present \/ runButton.present
  /\ ObserverCallbacks(IF present THEN NewButton ELSE NoButton)
  /\ UNCHANGED <<domTitle, resultDiv>>
  /\ MutationFrame

\* the page renders another state of the result area
ResultMutation(div) ==
  /\ Idle
  /\ div # resultDiv
  /\ resultDiv' = div
  /\ domTitle' = domTitle
  /\ ObserverCallbacks(runButton)
  /\ MutationFrame

\* any other change below document.body
OtherMutation ==
  /\ Idle
  /\ ObserverCallbacks(runButton)
  /\ UNCHANGED <<domTitle, resultDiv>>
  /\ MutationFrame

(***************************************************************************)
(* The debounced title check, lines 136-147                                *)
(***************************************************************************)
\* the title test without the comparison with lastSeenTitle (line 142 left out)
TitleCheckPasses_NoLastSeen(currentTitle) ==
  /\ ~Falsy(currentTitle)
  /\ currentTitle # TitleOf(problemDetails)

TitleCheckPasses(currentTitle) ==
  /\ ~Falsy(currentTitle)
  /\ currentTitle # TitleOf(problemDetails)
  /\ currentTitle # lastSeenTitle

DebounceFire(handle) ==
  /\ Idle
  /\ handle \in liveTimeouts
  /\ liveTimeouts' = liveTimeouts \ {handle}
  /\ IF TitleCheckPasses(domTitle)
       THEN /\ lastSeenTitle' = domTitle
            /\ handleProblemChange
       ELSE UNCHANGED <<lastSeenTitle, pendingParse, problemDetails, storeSlug>>
  /\ Relay(<<>>)
  /\ lastOp' = "TitleCheck"
  /\ stalePolls' = stalePolls \cap DOMAIN intervals
  /\ ScriptOnly
  /\ UNCHANGED <<lastSentCode, lastTestResult, lastSentTestResult, activeIntervals,
                 debounceTimer, observers, listeners, pathname, domTitle,
                 runButton, resultDiv, intervals, pendingResult>>

\* history.pushState / replaceState by the page: the location changes
Navigate(path) ==
  /\ Idle
  /\ path # pathname
  /\ pathname' = path
  /\ Relay(<<>>)
  /\ lastOp' = "Navigate"
  /\ stalePolls' = stalePolls \cap DOMAIN intervals
  /\ ScriptOnly
  /\ UNCHANGED <<problemDetails, lastSentCode, lastTestResult, lastSentTestResult,
                 activeIntervals, debounceTimer, lastSeenTitle, observers,
                 listeners, storeSlug, domTitle, runButton, resultDiv,
                 liveTimeouts, intervals, pendingParse, pendingResult>>

(***************************************************************************)
(* monitorTestResult(), lines 181-239                                      *)
(***************************************************************************)
\* monitorTestResult starting a poll without clearing the registered ones
\* (lines 183-184 left out)
monitorTestResult_NoClear ==
  LET checkInterval == NewTimer({})
  IN  /\ liveTimeouts' = liveTimeouts
      /\ intervals' = [h \in DOMAIN intervals \cup {checkInterval} |->
                         IF h = checkInterval THEN 0 ELSE intervals[h]]
      /\ activeIntervals' = Append(activeIntervals, checkInterval)

monitorTestResult ==
  LET old == Range(activeIntervals)
      checkInterval == NewTimer(old)
  IN  /\ liveTimeouts' = ClearedTimeouts(old)
      /\ intervals' = [h \in (DOMAIN intervals \ old) \cup {checkInterval} |->
                         IF h = checkInterval THEN 0 ELSE intervals[h]]
      /\ activeIntervals' = <<checkInterval>>

TriggerFrame ==
  /\ Relay(<<>>)
  /\ UNCHANGED <<problemDetails, lastSentCode, lastTestResult, lastSentTestResult,
                 debounceTimer, lastSeenTitle, observers, listeners, storeSlug,
                 pathname, domTitle, runButton, resultDiv, pendingParse,
                 pendingResult>>

\* click on the run button, delivered to the listener attached at line 163
RunClick ==
  /\ Idle
  /\ runButton.present /\ runButton.listening
  /\ monitorTestResult
  /\ lastOp' = "RunClick"
  /\ stalePolls' = {}
  /\ ScriptOnly
  /\ TriggerFrame

\* Ctrl + ' on the document, lines 242-247
KeyChord ==
  /\ Idle
  /\ "keydown" \in listeners
  /\ monitorTestResult
  /\ lastOp' = "KeyChord"
  /\ stalePolls' = {}
  /\ ScriptOnly
  /\ TriggerFrame

\* The container the tick hands to the parser, lines 200-209
ResultContainer(div) ==
  IF div.inPanel THEN "panel"
  ELSE IF Includes(div, "Compile Error") \/ Includes(div, "Runtime Error") THEN "body"
  ELSE "none"

SeesTerminal(div) == \E keyword \in TerminalKeywords : Includes(div, keyword)

\* the poll callback without the attempt ceiling (lines 231-236 left out)
Tick_NoCeiling(handle) ==
  /\ Idle
  /\ handle \in DOMAIN intervals
  /\ LET checkCount == intervals[handle] + 1
         stop == SeesTerminal(resultDiv)
     IN  /\ pendingResult' =
               IF SeesTerminal(resultDiv) /\ ResultContainer(resultDiv) # "none"
                 THEN parseLeetCodetestResult(ResultContainer(resultDiv), resultDiv)
                 ELSE NoPending
         /\ intervals' = IF stop THEN ClearedIntervals({handle})
                         ELSE [intervals EXCEPT ![handle] = checkCount]
         /\ liveTimeouts' = IF stop THEN ClearedTimeouts({handle}) ELSE liveTimeouts
         /\ activeIntervals' =
               IF stop THEN SelectSeq(activeIntervals, LAMBDA id : id # handle)
               ELSE activeIntervals
  /\ Relay(<<>>)
  /\ lastOp' = "Tick"
  /\ stalePolls' = stalePolls
  /\ ScriptOnly
  /\ UNCHANGED <<problemDetails, lastSentCode, lastTestResult, lastSentTestResult,
                 debounceTimer, lastSeenTitle, observers, listeners, storeSlug,
                 pathname, domTitle, runButton, resultDiv, pendingParse>>

\* one callback of the poll's setInterval, lines 188-237
Tick(handle) ==
  /\ Idle
  /\ handle \in DOMAIN intervals
  /\ LET checkCount == intervals[handle] + 1
         stop == SeesTerminal(resultDiv) \/ checkCount >= maxChecks
     IN  /\ pendingResult' =
               IF SeesTerminal(resultDiv) /\ ResultContainer(resultDiv) # "none"
                 THEN parseLeetCodetestResult(ResultContainer(resultDiv), resultDiv)
                 ELSE NoPending
         /\ intervals' = IF stop THEN ClearedIntervals({handle})
                         ELSE [intervals EXCEPT ![handle] = checkCount]
         /\ liveTimeouts' = IF stop THEN ClearedTimeouts({handle}) ELSE liveTimeouts
         /\ activeIntervals' =
               IF stop THEN SelectSeq(activeIntervals, LAMBDA id : id # handle)
               ELSE activeIntervals
  /\ Relay(<<>>)
  /\ lastOp' = "Tick"
  /\ stalePolls' = stalePolls
  /\ ScriptOnly
  /\ UNCHANGED <<problemDetails, lastSentCode, lastTestResult, lastSentTestResult,
                 debounceTimer, lastSeenTitle, observers, listeners, storeSlug,
                 pathname, domTitle, runButton, resultDiv, pendingParse>>

\* the reaction sending without recording the result (line 215 left out)
ResultResolve_NoRecord ==
  /\ pendingResult # NoPending
  /\ pendingResult' = NoPending
  /\ IF JSONstringify(pendingResult) # JSONstringify(lastTestResult)
       THEN /\ lastTestResult' = lastTestResult
            /\ IF ~Falsy(lastSentCode)
                 THEN LET r == sendUnifiedUpdate(lastSentCode, problemDetails,
                                                 lastTestResult, lastSentCode,
                                                 lastSentTestResult, pathname)
                      IN  /\ lastSentCode' = r.lastSentCode
                          /\ lastSentTestResult' = r.lastSentTestResult
                          /\ Relay(r.out)
                 ELSE /\ Relay(<<>>)
                      /\ UNCHANGED <<lastSentCode, lastSentTestResult>>
       ELSE /\ Relay(<<>>)
            /\ UNCHANGED <<lastTestResult, lastSentCode, lastSentTestResult>>
  /\ lastOp' = "ResultResolve"
  /\ stalePolls' = stalePolls \cap DOMAIN intervals
  /\ ScriptOnly
  /\ UNCHANGED <<problemDetails, activeIntervals, debounceTimer, lastSeenTitle,
                 observers, listeners, storeSlug, pathname, domTitle, runButton,
                 resultDiv, liveTimeouts, intervals, pendingParse>>

\* the reaction to the parser's promise, lines 213-220
ResultResolve ==
  /\ pendingResult # NoPending
  /\ pendingResult' = NoPending
  /\ IF JSONstringify(pendingResult) # JSONstringify(lastTestResult)
       THEN /\ lastTestResult' = pendingResult
            /\ IF ~Falsy(lastSentCode)
                 THEN LET r == sendUnifiedUpdate(lastSentCode, problemDetails,
                                                 pendingResult, lastSentCode,
                                                 lastSentTestResult, pathname)
                      IN  /\ lastSentCode' = r.lastSentCode
                          /\ lastSentTestResult' = r.lastSentTestResult
                          /\ Relay(r.out)
                 ELSE /\ Relay(<<>>)
                      /\ UNCHANGED <<lastSentCode, lastSentTestResult>>
       ELSE /\ Relay(<<>>)
            /\ UNCHANGED <<lastTestResult, lastSentCode, lastSentTestResult>>
  /\ lastOp' = "ResultResolve"
  /\ stalePolls' = stalePolls \cap DOMAIN intervals
  /\ ScriptOnly
  /\ UNCHANGED <<problemDetails, activeIntervals, debounceTimer, lastSeenTitle,
                 observers, listeners, storeSlug, pathname, domTitle, runButton,
                 resultDiv, liveTimeouts, intervals, pendingParse>>

(***************************************************************************)
(* beforeunload listener, lines 257-266                                    *)
(***************************************************************************)
Unload ==
  /\ Idle
  /\ "beforeunload" \in listeners
  /\ LET handles == (IF debounceTimer # NoTimer THEN {debounceTimer} ELSE {})
                      \cup Range(activeIntervals)
     IN  /\ liveTimeouts' = ClearedTimeouts(handles)
         /\ intervals' = ClearedIntervals(handles)
  /\ observers' = {}
  /\ listeners' = listeners \ {"keydown"}
  /\ activeIntervals' = <<>>
  /\ Relay(<<>>)
  /\ lastOp' = "Unload"
  /\ StillLive
  /\ ScriptOnly
  /\ UNCHANGED <<problemDetails, lastSentCode, lastTestResult, lastSentTestResult,
                 debounceTimer, lastSeenTitle, storeSlug, pathname, domTitle,
                 runButton, resultDiv, pendingParse, pendingResult>>

(***************************************************************************)
(* Streaming chat client, src/src/utils/gemini.ts: callGeminiApi is an     *)
(* async generator.  One step is one resumption of the generator up to     *)
(* its next suspension (an await of the provider or a yield) or one        *)
(* settlement by the provider.                                             *)
(***************************************************************************)
\* `undefined` for thinkingStartTime / thinkingEndTime, lines 138-139
NoTime == -1

\* largest value Date.now() returns, and the provider's stream length
MaxClock == 1
MaxChunks == 2
MaxParts == 3
MaxChunkParts == 2
MaxHistory == 2

\* a JavaScript value passed as apiKey: its typeof and its text
ApiKeys ==
  { [typeof |-> "string", text |-> "key"],
    [typeof |-> "string", text |-> ""],
    [typeof |-> "object", text |-> "null"],
    [typeof |-> "undefined", text |-> "undefined"],
    [typeof |-> "number", text |-> "42"] }

GoodKey == [typeof |-> "string", text |-> "key"]

\* !apiKey
FalsyValue(v) ==
  \/ v.typeof = "undefined"
  \/ v.typeof = "object" /\ v.text = "null"
  \/ v.typeof = "string" /\ v.text = ""
  \/ v.typeof = "number" /\ v.text \in {"0", "NaN"}

\* the key test accepting every truthy value (typeof comparison left out)
ValidKey_OnlyFalsy(apiKey) == ~FalsyValue(apiKey)

\* line 32 negated
ValidKey(apiKey) == ~(FalsyValue(apiKey) \/ apiKey.typeof # "string")

InvalidKeyError == [name |-> "Error", message |-> <<"Invalid API key provided.">>]

ChatMessages ==
  { [isUser |-> TRUE, text |-> "q1"],
    [isUser |-> FALSE, text |-> "r1"],
    [isUser |-> TRUE, text |-> "q2"] }

Histories == UNION {[1..n -> ChatMessages] : n \in 0..MaxHistory}

ContextTexts == {Null, "", "given"}
UserMessages == {"hi", ""}

\* `value || placeholder`
OrElse(value, placeholder) == IF Falsy(value) THEN placeholder ELSE value

NoProblemDetails == "No problem details provided."
NoCode == "No code provided."

\* the template literal of lines 102-108, as the pieces it concatenates
FinalTurnText(problemDetails_, userCode, currentUserMessage) ==
  << "Problem Details:", OrElse(problemDetails_, NoProblemDetails),
     "User Code:", OrElse(userCode, NoCode),
     "User's latest message to respond to: ", currentUserMessage >>

\* the history mapped with every turn tagged "user"
HistoryContent_AllUser(m) == [role |-> "user", parts |-> <<[text |-> <<m.text>>]>>]

\* lines 94-97
HistoryContent(m) ==
  [role |-> IF m.isUser THEN "user" ELSE "model", parts |-> <<[text |-> <<m.text>>]>>]

\* contents, lines 93-112
Contents(chatHistory, problemDetails_, userCode, currentUserMessage) ==
  [i \in 1..Len(chatHistory) |-> HistoryContent(chatHistory[i])]
    \o << [role |-> "user",
           parts |-> <<[text |-> FinalTurnText(problemDetails_, userCode,
                                               currentUserMessage)]>>] >>

Calls(keys, histories, contexts, messages) ==
  [apiKey : keys, chatHistory : histories, problemDetails : contexts,
   userCode : contexts, currentUserMessage : messages, streamThoughts : BOOLEAN]

\* what the provider delivers: content parts, chunks, failures
ContentParts ==
  { [text |-> "a", thought |-> FALSE], [text |-> "b", thought |-> FALSE],
    [text |-> "a", thought |-> TRUE], [text |-> "b", thought |-> TRUE],
    [text |-> "", thought |-> FALSE], [text |-> Undefined, thought |-> TRUE] }

PartLists == UNION {[1..n -> ContentParts] : n \in 0..MaxChunkParts}

\* chunk.candidates?.[0]?.content?.parts is missing, or is a list
Chunks == {[hasParts |-> FALSE, parts |-> <<>>]}
            \cup {[hasParts |-> TRUE, parts |-> ps] : ps \in PartLists}

\* String.prototype.includes on texts spelled as character sequences
includes(text, pattern) ==
  \E i \in 1..(Len(text) - Len(pattern) + 1) :
    SubSeq(text, i, i + Len(pattern) - 1) = pattern

\* values a provider call can fail with: errors with a message text, a
\* thrown value without a message property, and a thrown undefined
FailureTexts ==
  { <<"4","0","0">>, <<"[","4","0","1","]">>, <<"e","4","0","3">>,
    <<"4","0","4","!">>, <<"4","2","9">>, <<"5","0","0">>, <<"5","0","3">>,
    <<"5","0","3","/","4","0","1">>, <<"x","4","0">>, <<>> }

ErrorFailures == {[kind |-> "Error", message |-> t] : t \in FailureTexts}

Failures ==
  ErrorFailures \cup {[kind |-> "NoMessage", message |-> <<>>],
                      [kind |-> "undefined", message |-> <<>>]}

Thrown(text) == [name |-> "Error", message |-> text]

InvalidRequest == <<"Invalid request. Please check your prompt and try again.">>
AuthFailed == <<"Authentication failed. Please check your API key.">>
PermissionDenied == <<"Permission denied. You do not have permission to call the API.">>
NotFound == <<"The requested resource was not found.">>
RateLimit == <<"Rate limit exceeded. Please try again later.">>
Unavailable == <<"The service is temporarily unavailable. Please try again later.">>
Unexpected(text) == <<"An unexpected error occurred: ">> \o text

\* the catch block with the unavailable test made before the others
ErrorMapping_UnavailableFirst(e) ==
  IF e.kind = "undefined"
    THEN [name |-> "TypeError",
          message |-> <<"Cannot read properties of undefined (reading 'message')">>]
  ELSE IF e.kind = "NoMessage"
    THEN [name |-> "TypeError",
          message |-> <<"Cannot read properties of undefined (reading 'includes')">>]
  ELSE IF includes(e.message, <<"5","0","0">>) \/ includes(e.message, <<"5","0","3">>)
    THEN Thrown(Unavailable)
  ELSE IF includes(e.message, <<"4","0","0">>) THEN Thrown(InvalidRequest)
  ELSE IF includes(e.message, <<"4","0","1">>) THEN Thrown(AuthFailed)
  ELSE IF includes(e.message, <<"4","0","3">>) THEN Thrown(PermissionDenied)
  ELSE IF includes(e.message, <<"4","0","4">>) THEN Thrown(NotFound)
  ELSE IF includes(e.message, <<"4","2","9">>) THEN Thrown(RateLimit)
  ELSE Thrown(Unexpected(e.message))

\* the catch block with the 503 test left out
ErrorMapping_No503(e) ==
  IF e.kind = "undefined"
    THEN [name |-> "TypeError",
          message |-> <<"Cannot read properties of undefined (reading 'message')">>]
  ELSE IF e.kind = "NoMessage"
    THEN [name |-> "TypeError",
          message |-> <<"Cannot read properties of undefined (reading 'includes')">>]
  ELSE IF includes(e.message, <<"4","0","0">>) THEN Thrown(InvalidRequest)
  ELSE IF includes(e.message, <<"4","0","1">>) THEN Thrown(AuthFailed)
  ELSE IF includes(e.message, <<"4","0","3">>) THEN Thrown(PermissionDenied)
  ELSE IF includes(e.message, <<"4","0","4">>) THEN Thrown(NotFound)
  ELSE IF includes(e.message, <<"4","2","9">>) THEN Thrown(RateLimit)
  ELSE IF includes(e.message, <<"5","0","0">>) THEN Thrown(Unavailable)
  ELSE Thrown(Unexpected(e.message))

\* the catch block, lines 169-192: reading e.message of undefined, or
\* calling includes on a missing message, throws a TypeError out of it
ErrorMapping(e) ==
  IF e.kind = "undefined"
    THEN [name |-> "TypeError",
          message |-> <<"Cannot read properties of undefined (reading 'message')">>]
  ELSE IF e.kind = "NoMessage"
    THEN [name |-> "TypeError",
          message |-> <<"Cannot read properties of undefined (reading 'includes')">>]
  ELSE IF includes(e.message, <<"4","0","0">>) THEN Thrown(InvalidRequest)
  ELSE IF includes(e.message, <<"4","0","1">>) THEN Thrown(AuthFailed)
  ELSE IF includes(e.message, <<"4","0","3">>) THEN Thrown(PermissionDenied)
  ELSE IF includes(e.message, <<"4","0","4">>) THEN Thrown(NotFound)
  ELSE IF includes(e.message, <<"4","2","9">>) THEN Thrown(RateLimit)
  ELSE IF includes(e.message, <<"5","0","0">>) \/ includes(e.message, <<"5","0","3">>)
    THEN Thrown(Unavailable)
  ELSE Thrown(Unexpected(e.message))

\* the loop body yielding an event for a part whatever its text
InspectPart_NoTextTest(part, started, endTime, now) ==
  IF part.thought
    THEN [out |-> <<[thought |-> part.text]>>, hasThinking |-> TRUE,
          thinkingEndTime |-> endTime, readsClock |-> FALSE]
    ELSE [out |-> <<[text |-> part.text]>>, hasThinking |-> started,
          thinkingEndTime |-> endTime, readsClock |-> FALSE]

\* the loop body for one part, lines 147-166; now is what Date.now() returns
InspectPart(part, started, endTime, now) ==
  IF Falsy(part.text)
    THEN [out |-> <<>>, hasThinking |-> started,
          thinkingEndTime |-> endTime, readsClock |-> FALSE]
  ELSE IF part.thought
    THEN IF ~started
           THEN [out |-> <<[thought |-> part.text, thinkingStartTime |-> now]>>,
                 hasThinking |-> TRUE, thinkingEndTime |-> endTime,
                 readsClock |-> TRUE]
           ELSE [out |-> <<[thought |-> part.text]>>, hasThinking |-> started,
                 thinkingEndTime |-> endTime, readsClock |-> FALSE]
  ELSE IF started /\ (endTime = NoTime \/ endTime = 0)
    THEN [out |-> <<[text |-> part.text, thinkingEndTime |-> now]>>,
          hasThinking |-> started, thinkingEndTime |-> now, readsClock |-> TRUE]
    ELSE [out |-> <<[text |-> part.text]>>, hasThinking |-> started,
          thinkingEndTime |-> endTime, readsClock |-> FALSE]

ScriptUnchanged == UNCHANGED <<scriptVars, parseVars, chatVars, savedVars>>

\* the consumer's first next(): the body runs to the await of line 129
FirstNext ==
  /\ position = "start"
  /\ IF ValidKey(args.apiKey)
       THEN /\ request' = [contents |-> Contents(args.chatHistory, args.problemDetails,
                                                  args.userCode, args.currentUserMessage),
                           includeThoughts |-> args.streamThoughts]
            /\ position' = "awaitingStream"
            /\ thrown' = thrown
       ELSE /\ position' = "thrown"
            /\ thrown' = InvalidKeyError
            /\ request' = request
  /\ UNCHANGED <<args, parts, consumed, events, hasThinking, thinkingStartTime,
                 thinkingEndTime, clock, chunks, failure>>
  /\ ScriptUnchanged

\* generateContentStream resolves with the stream
StreamOpened ==
  /\ position = "awaitingStream"
  /\ position' = "awaitingChunk"
  /\ UNCHANGED <<args, request, parts, consumed, events, hasThinking,
                 thinkingStartTime, thinkingEndTime, clock, chunks, failure, thrown>>
  /\ ScriptUnchanged

\* a rejection by the provider lands in the catch block
Caught(e) ==
  /\ position' = "thrown"
  /\ failure' = e
  /\ thrown' = ErrorMapping(e)
  /\ UNCHANGED <<args, request, parts, consumed, events, hasThinking,
                 thinkingStartTime, thinkingEndTime, clock, chunks>>
  /\ ScriptUnchanged

\* generateContentStream rejects
StreamRefused(e) == position = "awaitingStream" /\ Caught(e)

\* the stream's iterator rejects
StreamFails(e) == position = "awaitingChunk" /\ Caught(e)

\* the stream delivers a chunk, lines 142-146
ChunkArrives(chunk) ==
  /\ position = "awaitingChunk"
  /\ chunks < MaxChunks
  /\ Len(consumed) + Len(chunk.parts) <= MaxParts
  /\ chunks' = chunks + 1
  /\ parts' = IF chunk.hasParts THEN chunk.parts ELSE <<>>
  /\ position' = IF parts' = <<>> THEN "awaitingChunk" ELSE "inChunk"
  /\ UNCHANGED <<args, request, consumed, events, hasThinking, thinkingStartTime,
                 thinkingEndTime, clock, failure, thrown>>
  /\ ScriptUnchanged

\* the inner loop takes the next part; a yielded event is handed to the
\* consumer, whose next() resumes the loop
PartInspected(now) ==
  /\ position = "inChunk"
  /\ now >= clock
  /\ LET r == InspectPart(Head(parts), hasThinking, thinkingEndTime, now)
     IN  /\ events' = events \o r.out
         /\ hasThinking' = r.hasThinking
         /\ thinkingEndTime' = r.thinkingEndTime
         /\ thinkingStartTime' =
              IF r.readsClock /\ ~hasThinking THEN now ELSE thinkingStartTime
         /\ clock' = IF r.readsClock THEN now ELSE clock
  /\ consumed' = Append(consumed, Head(parts))
  /\ parts' = Tail(parts)
  /\ position' = IF parts' = <<>> THEN "awaitingChunk" ELSE "inChunk"
  /\ UNCHANGED <<args, request, chunks, failure, thrown>>
  /\ ScriptUnchanged

\* the stream is exhausted: the generator returns
StreamEnds ==
  /\ position = "awaitingChunk"
  /\ position' = "completed"
  /\ UNCHANGED <<args, request, parts, consumed, events, hasThinking,
                 thinkingStartTime, thinkingEndTime, clock, chunks, failure, thrown>>
  /\ ScriptUnchanged

\* callGeminiApi(...) has been called: nothing runs before the first next()
CallInit(calls) ==
  /\ args \in calls
  /\ position = "start"
  /\ request = NullRec
  /\ parts = <<>>
  /\ consumed = <<>>
  /\ events = <<>>
  /\ hasThinking = FALSE
  /\ thinkingStartTime = NoTime
  /\ thinkingEndTime = NoTime
  /\ clock = 0
  /\ chunks = 0
  /\ failure = NullRec
  /\ thrown = NullRec

\* the chat is not used
QuietCalls == {call \in Calls({GoodKey}, {<<>>}, {Null}, {"hi"}) : ~call.streamThoughts}

(***************************************************************************)
(* The result parser, src/src/scripts/content-script/parser.ts lines       *)
(* 47-296, on the page as its selectors see it.  A content block is what   *)
(* follows an Input / Output / Expected header: it has a .cm-content with  *)
(* .cm-line elements, or label/value groups, or a plain .font-menlo text.  *)
(***************************************************************************)
MaxKeys == 2
MaxLines == 4

\* textContent(...).trim() on the texts of the model
TrimText(s) == IF s = " x " THEN "x" ELSE IF s = " detail " THEN "detail" ELSE s

\* JSON.parse(valueStr) in try/catch: the decoded value, or the raw string
JsonTexts == {"7", "[0,1]"}
Decode(valueStr) ==
  IF valueStr \in JsonTexts THEN [json |-> TRUE, text |-> valueStr]
  ELSE [json |-> FALSE, text |-> valueStr]

\* label.replace("=", "").trim()
KeyOfLabel(label) ==
  IF label = "nums =" THEN "nums" ELSE IF label = "target =" THEN "target"
  ELSE IF label = "=" THEN "" ELSE label

NoBlock == [cm |-> FALSE, lines |-> <<>>, groups |-> <<>>, plain |-> Undefined]
CmBlock(lines) == [cm |-> TRUE, lines |-> lines, groups |-> <<>>, plain |-> Undefined]
GroupBlock(groups) == [cm |-> FALSE, lines |-> <<>>, groups |-> groups, plain |-> Undefined]
PlainBlock(text) == [cm |-> FALSE, lines |-> <<>>, groups |-> <<>>, plain |-> text]

\* a line of a keyed .cm-content: line.split("=") has a key part or not
KeyedLines == {[key |-> "nums", eq |-> TRUE, value |-> "7"],
               [key |-> "", eq |-> FALSE, value |-> "7"]}

\* writes obj[key] = value for the pairs in order: a later write replaces
RECURSIVE Assign(_, _)
Assign(pairs, n) ==
  IF n = 0 THEN [key \in {} |-> NullRec]
  ELSE LET before == Assign(pairs, n - 1)
       IN  [key \in DOMAIN before \cup {pairs[n].key} |->
              IF key = pairs[n].key THEN pairs[n].value ELSE before[key]]

\* parseInput(contentDiv), lines 222-277: the keys of the first Input block
parseInput(contentDiv) ==
  IF contentDiv.cm
    THEN IF \E i \in 1..Len(contentDiv.lines) : contentDiv.lines[i].eq
           THEN LET keyed == SelectSeq(contentDiv.lines, LAMBDA line : line.eq)
                    pairs == [i \in 1..Len(keyed) |->
                                [key |-> keyed[i].key, value |-> Decode(keyed[i].value)]]
                IN  [parsed |-> Assign(pairs, Len(pairs)),
                     keys |-> [i \in 1..Len(keyed) |-> keyed[i].key]]
           ELSE [parsed |-> Assign(<<>>, 0), keys |-> <<>>]
    ELSE LET usable == SelectSeq(contentDiv.groups,
                                 LAMBDA group : /\ ~Falsy(KeyOfLabel(group.label))
                                                /\ ~Falsy(TrimText(group.value)))
             pairs == [i \in 1..Len(usable) |->
                         [key |-> KeyOfLabel(usable[i].label),
                          value |-> Decode(TrimText(usable[i].value))]]
         IN  [parsed |-> Assign(pairs, Len(pairs)),
              keys |-> [i \in 1..Len(usable) |-> KeyOfLabel(usable[i].label)]]

\* parseValue reading the first line whatever the index is
parseValue_FirstLine(contentDiv, index) ==
  IF contentDiv.cm
    THEN IF Len(contentDiv.lines) > 0
           THEN TrimText(contentDiv.lines[1]) ELSE ""
    ELSE IF Falsy(contentDiv.plain) \/ Falsy(TrimText(contentDiv.plain))
           THEN "" ELSE TrimText(contentDiv.plain)

\* parseValue(contentDiv, index), lines 279-296; index counts from 0
parseValue(contentDiv, index) ==
  IF contentDiv.cm
    THEN IF Len(contentDiv.lines) > index
           THEN TrimText(contentDiv.lines[index + 1]) ELSE ""
    ELSE IF Falsy(contentDiv.plain) \/ Falsy(TrimText(contentDiv.plain))
           THEN "" ELSE TrimText(contentDiv.plain)

Resolved(cases) == [threw |-> FALSE, cases |-> cases]
\* reading .content of undefined: the async function's promise rejects
Rejected == [threw |-> TRUE, cases |-> <<>>]

\* the collapsed cases cut into as many whole cases as fit (the test of
\* line 194 left out)
CollapsedCases_NoDivisibility(globalKeys, collapsedInput, collapsedOutput, collapsedExpected) ==
  IF ~collapsedInput.cm THEN <<>>
  ELSE LET lines == [i \in 1..Len(collapsedInput.lines) |->
                       TrimText(collapsedInput.lines[i])]
           K == Len(globalKeys)
       IN  IF Len(lines) > 0 /\ K > 0
             THEN [c \in 1..(Len(lines) \div K) |->
                     LET j == c - 1
                         pairs == [k \in 1..K |->
                                     [key |-> globalKeys[k],
                                      value |-> Decode(lines[j * K + k])]]
                     IN  [input |-> Assign(pairs, K),
                          output |-> parseValue(collapsedOutput, j),
                          expected |-> parseValue(collapsedExpected, j)]]
             ELSE <<>>

\* the collapsed cases, lines 185-215
CollapsedCases(globalKeys, collapsedInput, collapsedOutput, collapsedExpected) ==
  IF ~collapsedInput.cm THEN <<>>
  ELSE LET lines == [i \in 1..Len(collapsedInput.lines) |->
                       TrimText(collapsedInput.lines[i])]
           K == Len(globalKeys)
       IN  IF Len(lines) > 0 /\ K > 0 /\ Len(lines) % K = 0
             THEN [c \in 1..(Len(lines) \div K) |->
                     LET j == c - 1
                         pairs == [k \in 1..K |->
                                     [key |-> globalKeys[k],
                                      value |-> Decode(lines[j * K + k])]]
                     IN  [input |-> Assign(pairs, K),
                          output |-> parseValue(collapsedOutput, j),
                          expected |-> parseValue(collapsedExpected, j)]]
             ELSE <<>>

\* the normal parsing, lines 137-219, on the header/content sections found
NormalCases(sections) ==
  LET found == SelectSeq(sections, LAMBDA s : s.hasContent)
      inputs == SelectSeq(found, LAMBDA s : s.type = "Input")
      outputs == SelectSeq(found, LAMBDA s : s.type = "Output")
      expecteds == SelectSeq(found, LAMBDA s : s.type = "Expected")
  IN  IF Len(inputs) > 0 /\ Len(outputs) > 0 /\ Len(expecteds) > 0
        THEN IF Len(inputs) < 2 THEN Rejected
             ELSE Resolved(CollapsedCases(
                    parseInput(inputs[1].content).keys,
                    inputs[2].content,
                    IF Len(outputs) > 1 THEN outputs[2].content ELSE outputs[1].content,
                    IF Len(expecteds) > 1 THEN expecteds[2].content
                                          ELSE expecteds[1].content))
        ELSE Resolved(<<>>)

\* `Compile Error: ${errorDetails}` and its runtime counterpart
ErrorDetails(errorText, unknown) ==
  IF Falsy(errorText) \/ Falsy(TrimText(errorText)) THEN unknown ELSE TrimText(errorText)

CompileErrorCase(page) ==
  [input |-> Assign(<<[key |-> "NA (compile error)",
                       value |-> [json |-> FALSE, text |-> "NA (compile error)"]]>>, 1),
   output |-> <<"Compile Error: ", ErrorDetails(page.error, "Unknown compile error")>>,
   expected |-> "NA (compile error)"]

RuntimeErrorCase(page) ==
  [input |-> parseInput(GroupBlock(page.groups)).parsed,
   output |-> <<"Runtime Error: ", ErrorDetails(page.error, "Unknown runtime error")>>,
   expected |-> Null]

\* parseLeetCodetestResult(container) on a whole page, lines 47-220.
\* page.container is "none" (nothing passed and no panel in the document),
\* "body" or "panel"; page.result is the text of the console-result
\* element the function's query finds, "" if it finds none.
ParseTestResult(page) ==
  IF page.container = "none" THEN Resolved(<<>>)
  ELSE IF page.container = "body" /\ page.result = "Compile Error"
    THEN Resolved(<<CompileErrorCase(page)>>)
  ELSE IF page.container = "body" /\ page.result = "Runtime Error"
    THEN Resolved(<<RuntimeErrorCase(page)>>)
  ELSE IF page.container = "panel" /\ page.result = "Compile Error"
    THEN Resolved(<<CompileErrorCase(page)>>)
  ELSE NormalCases(page.sections)

\* the pages the parser is applied to
InputGroups == {[label |-> "nums =", value |-> "7"],
                [label |-> "target =", value |-> " x "],
                [label |-> "=", value |-> "7"]}
GroupLists == UNION {[1..n -> InputGroups] : n \in 0..MaxKeys}
LineLists == UNION {[1..n -> {"7", " x "}] : n \in 0..MaxLines}
KeyedLineLists == UNION {[1..n -> KeyedLines] : n \in 1..MaxKeys}

FirstInputs == {GroupBlock(g) : g \in GroupLists} \cup {CmBlock(l) : l \in KeyedLineLists}
SecondInputs == {CmBlock(l) : l \in LineLists} \cup {GroupBlock(<<>>)}
ValueBlocks == {PlainBlock(" x "), PlainBlock(Undefined),
                CmBlock(<<"[0,1]">>), CmBlock(<<"[0,1]", " x ">>)}

Section(type, content) == [type |-> type, hasContent |-> TRUE, content |-> content]
Orphan(type) == [type |-> type, hasContent |-> FALSE, content |-> NoBlock]

\* a result panel showing a visible case and a collapsed block
TwoBlockSections ==
  { << Section("Input", first), Section("Output", PlainBlock("[0,1]")),
       Section("Expected", PlainBlock("[0,1]")), Section("Input", second),
       Section("Output", output), Section("Expected", expected) >> :
      first \in FirstInputs, second \in SecondInputs,
      output \in {CmBlock(<<"[0,1]">>)}, expected \in {CmBlock(<<"[0,1]", " x ">>)} }

\* panels with blocks missing
SparseSections ==
  { <<>>, <<Section("Input", GroupBlock(<<>>))>>,
    <<Section("Input", CmBlock(<<>>)), Orphan("Output"), Section("Expected", NoBlock)>> }
  \cup { << Section("Input", first), Section("Output", output),
            Section("Expected", expected) >> :
           first \in {GroupBlock(<<[label |-> "nums =", value |-> "7"]>>)},
           output \in ValueBlocks, expected \in ValueBlocks }
  \cup { << Section("Input", GroupBlock(<<[label |-> "nums =", value |-> "7"]>>)),
            Section("Output", output), Section("Input", CmBlock(<<"7", " x ">>)),
            Section("Expected", expected) >> :
           output \in ValueBlocks, expected \in ValueBlocks }

Page(container, result, error, groups, sections) ==
  [container |-> container, result |-> result, error |-> error,
   groups |-> groups, sections |-> sections]

CasePages ==
  {Page("panel", result, Undefined, <<>>, sections) :
     result \in {"", "Accepted"}, sections \in TwoBlockSections \cup SparseSections}

ErrorPages ==
  {Page(container, result, error, groups, <<>>) :
     container \in {"none", "body", "panel"},
     result \in {"", "Accepted", "Compile Error", "Runtime Error"},
     error \in {Undefined, "", " detail "},
     groups \in {<<>>, <<[label |-> "nums =", value |-> "7"]>>}}

Pages == CasePages \cup ErrorPages

ParseOnly == UNCHANGED <<scriptVars, callVars, chatVars, savedVars>>

\* parseLeetCodetestResult is called on the page and its promise settles
ParsePage ==
  /\ parsed = NullRec
  /\ parsed' = ParseTestResult(doc)
  /\ doc' = doc
  /\ ParseOnly

\* the page is rendered again
Rerender(next) ==
  /\ parsed # NullRec
  /\ doc' = next
  /\ parsed' = NullRec
  /\ ParseOnly

ParseInit(pages) ==
  /\ doc \in pages
  /\ parsed = NullRec

\* the parser is not used
QuietPages == {Page("none", "", Undefined, <<>>, <<>>)}

(***************************************************************************)
(* parseLeetCodeProblem, parser.ts lines 7-45: the description.  The page  *)
(* is the .elfjS container as the loop of lines 16-21 sees it: for each    *)
(* child its outerHTML (a text, written as its pieces so that += is        *)
(* concatenation), whether it matches ".example" and whether it has a      *)
(* descendant that does.                                                   *)
(***************************************************************************)
MaxChildren == 3

Child(outerHTML, matches, contains) ==
  [outerHTML |-> outerHTML, matches |-> matches, contains |-> contains]

\* the children of the tests: paragraphs, an example, a nested example
Children ==
  { Child(<<"<p>", "Part 1", "</p>">>, FALSE, FALSE),
    Child(<<"<p>", "Part 2", "</p>">>, FALSE, FALSE),
    Child(<<"<div class=example>", "Example", "</div>">>, TRUE, FALSE),
    Child(<<"<div>", "<div class=example>", "Example", "</div>", "</div>">>,
          FALSE, TRUE) }

\* document.querySelector(".elfjS"): null, or the container's children
NoContentNode == [present |-> FALSE, children |-> <<>>]
ContentNode(children) == [present |-> TRUE, children |-> children]

ProblemPages ==
  {NoContentNode}
    \cup {ContentNode(c) : c \in UNION {[1..n -> Children] : n \in 0..MaxChildren}}

\* the loop skipping the example children instead of stopping at the first
\* (continue for break at line 18)
RECURSIVE withoutExamples(_, _, _)
withoutExamples(children, i, description) ==
  IF i > Len(children) THEN description
  ELSE IF children[i].matches \/ children[i].contains
    THEN withoutExamples(children, i + 1, description)
  ELSE withoutExamples(children, i + 1, description \o children[i].outerHTML)

\* the loop of lines 16-21 from child i on, `description` being the text
\* accumulated so far
RECURSIVE descriptionFrom(_, _, _)
descriptionFrom(children, i, description) ==
  IF i > Len(children) THEN description
  ELSE IF children[i].matches \/ children[i].contains THEN description
  ELSE descriptionFrom(children, i + 1, description \o children[i].outerHTML)

\* the description with the example children skipped, the later ones kept
descriptionOf_SkipsExamples(contentNode) ==
  IF contentNode.present THEN withoutExamples(contentNode.children, 1, <<>>) ELSE <<>>

\* lines 11-22: the description parseLeetCodeProblem returns
descriptionOf(contentNode) ==
  IF contentNode.present THEN descriptionFrom(contentNode.children, 1, <<>>) ELSE <<>>

\* parseLeetCodeProblem is called on the page and its promise resolves
ParseProblem ==
  /\ parsed = NullRec
  /\ parsed' = [description |-> descriptionOf(doc)]
  /\ doc' = doc
  /\ ParseOnly

(***************************************************************************)
(* The chat store and the chat session controller.  The store functions    *)
(* (utils/db: saveChat, loadChats) and the controller (the chat slice and  *)
(* the chat window's send handler) are modelled from sections 3, 4.4, 5    *)
(* and 6 of the design document; the calls and the values follow their     *)
(* tests, src/src/tests/utils/db.test.ts and src/unnamed/part_001, and the *)
(* retry control is the one ChatMessage renders                            *)
(* (src/src/components/chat/ChatMessage.tsx).  Texts are sequences of      *)
(* characters, so that appending a chunk is concatenation.                 *)
(***************************************************************************)
MaxTurns == 2
MaxEvents == 2

Slugs == {"two-sum", "add-two-numbers"}
ChatIds == {"chat1", "chat2"}
Times == {1000, 2000}

\* what get(key) finds under a slug: nothing (undefined), or a chat list
NoEntry == [present |-> FALSE, chats |-> <<>>]
Entry(chats) == [present |-> TRUE, chats |-> chats]

\* a chat; one written before lastUpdated existed has NoTime there
Chat(id, list, lastUpdated) == [id |-> id, messages |-> list, lastUpdated |-> lastUpdated]

\* the first index of the chat with this id, 0 if there is none (findIndex)
IndexOfChat(list, chatId) ==
  IF \E i \in 1..Len(list) : list[i].id = chatId
    THEN CHOOSE i \in 1..Len(list) :
           /\ list[i].id = chatId
           /\ \A k \in 1..(i - 1) : list[k].id # chatId
    ELSE 0

\* saveChat adding an entry on every call
saveChat_AlwaysPush(stored, chatId, list, timestamp) ==
  Entry(stored.chats \o <<Chat(chatId, list, timestamp)>>)

\* saveChat(problemSlug, chatId, messages, timestamp) on the value the
\* "chats" store holds under the slug: the value it puts back
saveChat(stored, chatId, list, timestamp) ==
  LET chats == IF stored.present THEN stored.chats ELSE <<>>
      at == IndexOfChat(chats, chatId)
  IN  IF at = 0
        THEN Entry(Append(chats, Chat(chatId, list, timestamp)))
        ELSE Entry([chats EXCEPT ![at] = [@ EXCEPT !.messages = list,
                                                   !.lastUpdated = timestamp]])

\* loadChats stamping every entry with the current time
loadChats_StampAll(stored, now) ==
  IF ~stored.present THEN <<>>
  ELSE [i \in 1..Len(stored.chats) |-> [stored.chats[i] EXCEPT !.lastUpdated = now]]

\* loadChats(problemSlug) on the value the store holds under the slug
loadChats(stored, now) ==
  IF ~stored.present THEN <<>>
  ELSE [i \in 1..Len(stored.chats) |->
          IF stored.chats[i].lastUpdated = NoTime
            THEN [stored.chats[i] EXCEPT !.lastUpdated = now] ELSE stored.chats[i]]

\* a text field that is undefined, and the thinking log that is null
NoText == <<Undefined>>
NoLog == <<<<Null>>>>

\* a message of a chat, as it is created
Message(id, isUser, text, status) ==
  [id |-> id, isUser |-> isUser, text |-> text, status |-> status,
   thinking |-> NoLog, thinkingStartTime |-> NoTime, thinkingEndTime |-> NoTime]

\* a StreamEvent: the fields it lacks are NoText and NoTime
StreamEvent(text, thought, startTime, endTime) ==
  [text |-> text, thought |-> thought,
   thinkingStartTime |-> startTime, thinkingEndTime |-> endTime]

StreamEvents ==
  { StreamEvent(NoText, <<"t">>, 1000, NoTime),
    StreamEvent(NoText, <<"u">>, NoTime, NoTime),
    StreamEvent(<<"a">>, NoText, NoTime, 2000),
    StreamEvent(<<"b", "c">>, NoText, NoTime, NoTime),
    StreamEvent(NoText, NoText, NoTime, NoTime),
    StreamEvent(<<>>, NoText, NoTime, 2000),
    StreamEvent(NoText, <<>>, 1000, NoTime) }

\* a text or thought field that is undefined or empty
Blank(field) == field = NoText \/ field = <<>>

\* the controller recording the timestamps of an event whatever it carries
ApplyEvent_StampsBlank(m, ev) ==
  LET stamped == [m EXCEPT !.thinkingStartTime =
                             IF ev.thinkingStartTime # NoTime
                               THEN ev.thinkingStartTime ELSE @,
                           !.thinkingEndTime =
                             IF ev.thinkingEndTime # NoTime
                               THEN ev.thinkingEndTime ELSE @]
  IN  IF ~Blank(ev.thought)
        THEN [stamped EXCEPT !.thinking =
                (IF m.thinking = NoLog THEN <<>> ELSE m.thinking) \o <<ev.thought>>]
      ELSE IF ~Blank(ev.text)
        THEN [stamped EXCEPT !.text = m.text \o ev.text]
      ELSE stamped

\* the controller putting each thought in front of the earlier ones
ApplyEvent_Prepends(m, ev) ==
  IF ~Blank(ev.thought)
    THEN [m EXCEPT !.thinking = <<ev.thought>> \o
                                  (IF m.thinking = NoLog THEN <<>> ELSE m.thinking),
                   !.thinkingStartTime =
                     IF ev.thinkingStartTime # NoTime
                       THEN ev.thinkingStartTime ELSE @]
  ELSE IF ~Blank(ev.text)
    THEN [m EXCEPT !.text = m.text \o ev.text,
                   !.thinkingEndTime =
                     IF ev.thinkingEndTime # NoTime
                       THEN ev.thinkingEndTime ELSE @]
  ELSE m

\* section 4.4, "On each StreamEvent": the message after the event
ApplyEvent(m, ev) ==
  IF ~Blank(ev.thought)
    THEN [m EXCEPT !.thinking =
                     (IF m.thinking = NoLog THEN <<>> ELSE m.thinking) \o <<ev.thought>>,
                   !.thinkingStartTime =
                     IF ev.thinkingStartTime # NoTime
                       THEN ev.thinkingStartTime ELSE @]
  ELSE IF ~Blank(ev.text)
    THEN [m EXCEPT !.text = m.text \o ev.text,
                   !.thinkingEndTime =
                     IF ev.thinkingEndTime # NoTime
                       THEN ev.thinkingEndTime ELSE @]
  ELSE m

\* the problem and the chat the window shows (the tests' two-sum, chat1)
CurrentProblemSlug == "two-sum"
CurrentChatId == "chat1"

\* the problem / code / test-result context read when a message is sent
Contexts == {[userCode |-> "a", testResult |-> Null],
             [userCode |-> "b", testResult |-> "passed"]}
UserTexts == {<<"h", "i">>}
StreamErrors == {"Streaming failed", "API Error"}

\* the status of the message the controller works on, "none" without one
StatusOf(list) == IF list = <<>> THEN "none" ELSE list[Len(list)].status
InFlight(list) == StatusOf(list) \in {"sending", "streaming"}

\* the last message replaced
WithLast(list, m) == [list EXCEPT ![Len(list)] = m]

NoFlight == [request |-> NullRec, arrived |-> <<>>, retried |-> FALSE, total |-> 0]

ChatOnly == UNCHANGED <<scriptVars, callVars, parseVars, savedVars>>

\* the user sends a message: the user turn and an assistant message in
\* "sending" are created, with the request the stream will be opened for
SendMessage(userText) ==
  /\ ~InFlight(thread)
  /\ Len(thread) < 2 * MaxTurns
  /\ LET userTurn == Message(Len(thread) + 1, TRUE, userText, "succeeded")
         reply == Message(Len(thread) + 2, FALSE, <<>>, "sending")
     IN  /\ thread' = thread \o <<userTurn, reply>>
         /\ flight' = [request |-> [problemSlug |-> CurrentProblemSlug,
                                    chatId |-> CurrentChatId,
                                    history |-> thread,
                                    snapshot |-> context,
                                    userMessage |-> userText],
                       arrived |-> <<>>, retried |-> FALSE, total |-> flight.total]
  /\ surfaced' = Null
  /\ UNCHANGED <<context, store, loaded>>
  /\ ChatOnly

\* the provider stream is opened for the request: the assistant begins
BeginStreaming ==
  /\ StatusOf(thread) = "sending"
  /\ thread' = WithLast(thread, [thread[Len(thread)] EXCEPT !.status = "streaming"])
  /\ UNCHANGED <<flight, context, surfaced, store, loaded>>
  /\ ChatOnly

\* the stream yields an event and the controller applies it
EventArrives(ev) ==
  /\ StatusOf(thread) = "streaming"
  /\ flight.total < MaxEvents
  /\ thread' = WithLast(thread, ApplyEvent(thread[Len(thread)], ev))
  /\ flight' = [flight EXCEPT !.arrived = Append(@, ev), !.total = @ + 1]
  /\ UNCHANGED <<context, surfaced, store, loaded>>
  /\ ChatOnly

\* the completion leaving the status as it is
finishStreaming_StillStreaming(list) == list

\* the stream completed without error: the message has succeeded
finishStreaming(list) ==
  WithLast(list, [list[Len(list)] EXCEPT !.status = "succeeded"])

\* the failure replacing what the message had accumulated
failStreaming_DropsPartial(list) ==
  WithLast(list, Message(Len(list), FALSE, <<>>, "failed"))

\* the stream raised: the message has failed and keeps what it has
failStreaming(list) ==
  WithLast(list, [list[Len(list)] EXCEPT !.status = "failed"])

\* the stream ends: finishStreamingMessageAndSave
StreamCompletes(now) ==
  /\ StatusOf(thread) = "streaming"
  /\ thread' = finishStreaming(thread)
  /\ store' = [store EXCEPT ![CurrentProblemSlug] =
                 saveChat(@, CurrentChatId, thread', now)]
  /\ UNCHANGED <<flight, context, surfaced, loaded>>
  /\ ChatOnly

\* the stream raises: failStreamingMessage and setError
StreamThrows(errorMessage) ==
  /\ StatusOf(thread) = "streaming"
  /\ thread' = failStreaming(thread)
  /\ surfaced' = errorMessage
  /\ UNCHANGED <<flight, context, store, loaded>>
  /\ ChatOnly

\* ChatMessage.tsx lines 143 and 168-213: the statuses of an assistant
\* message for which a Retry control is rendered (as "Try Again" on a
\* failed message, among the actions of a finished one)
RetryOffered(status) ==
  LET isStreaming == status = "streaming"
      isFailed == status = "failed"
      showActions == ~isStreaming /\ ~isFailed
  IN  isFailed \/ showActions

\* every message with a Retry control taken as retryable
Retryable_Any(status) == TRUE

\* section 4.4: "failed" is the status that is retryable
Retryable(status) == status = "failed"

\* the request a retry sends: the one of the failed attempt
RetryRequest_FreshContext(failed, current) == [failed EXCEPT !.snapshot = current]

RetryRequest(failed, current) == failed

\* the Retry control is used: a failed message re-enters "sending" with
\* the request of the failed attempt
Retry ==
  /\ thread # <<>>
  /\ RetryOffered(StatusOf(thread))
  /\ Retryable(StatusOf(thread))
  /\ thread' = WithLast(thread, Message(Len(thread), FALSE, <<>>, "sending"))
  /\ flight' = [flight EXCEPT !.request = RetryRequest(@, context),
                              !.arrived = <<>>, !.retried = TRUE]
  /\ surfaced' = Null
  /\ UNCHANGED <<context, store, loaded>>
  /\ ChatOnly

\* the user edits the code or runs it: the page context changes
ContextChanges(next) ==
  /\ next # context
  /\ context' = next
  /\ UNCHANGED <<thread, flight, surfaced, store, loaded>>
  /\ ChatOnly

\* saveChat called on the store; it returns nothing
SaveChat(slug, chatId, list, timestamp) ==
  /\ store' = [store EXCEPT ![slug] = saveChat(@, chatId, list, timestamp)]
  /\ loaded' = NullRec
  /\ UNCHANGED <<thread, flight, context, surfaced>>
  /\ ChatOnly

\* loadChats called on the store: what it returns
LoadChats(slug, now) ==
  /\ loaded' = [slug |-> slug, now |-> now, chats |-> loadChats(store[slug], now)]
  /\ UNCHANGED <<thread, flight, context, surfaced, store>>
  /\ ChatOnly

ChatInit(stores, contexts) ==
  /\ store \in stores
  /\ context \in contexts
  /\ thread = <<>>
  /\ flight = NoFlight
  /\ surfaced = Null
  /\ loaded = NullRec

EmptyStore == [slug \in Slugs |-> NoEntry]

\* the message ids the tests save
MessageIds == {"msg1", "msg2", "msg3"}

\* what get(key) finds in "saved-responses": nothing, or a list of ids
NoSaved == [present |-> FALSE, ids |-> <<>>]
Saved(ids) == [present |-> TRUE, ids |-> ids]

\* the list holds the id (includes)
HasId(ids, messageId) == \E i \in 1..Len(ids) : ids[i] = messageId

\* saveSavedResponse putting the id whether the list holds it or not
saveSavedResponse_AlwaysPush(stored, messageId) ==
  [put |-> TRUE, value |-> Saved(stored.ids \o <<messageId>>)]

\* saveSavedResponse(problemSlug, messageId) on the value the store holds
\* under the slug: whether it calls put, and the value under the slug after
saveSavedResponse(stored, messageId) ==
  LET ids == IF stored.present THEN stored.ids ELSE <<>>
  IN  IF HasId(ids, messageId)
        THEN [put |-> FALSE, value |-> stored]
        ELSE [put |-> TRUE, value |-> Saved(Append(ids, messageId))]

\* a call of saveSavedResponse, one readwrite transaction
SaveSavedResponse(slug, messageId) ==
  LET done == saveSavedResponse(savedResponses[slug], messageId)
  IN  /\ savedResponses' = [savedResponses EXCEPT ![slug] = done.value]
      /\ lastSave' = [slug |-> slug, messageId |-> messageId, put |-> done.put]
      /\ UNCHANGED <<scriptVars, callVars, parseVars, chatVars>>

SavedInit(stores) ==
  /\ savedResponses \in stores
  /\ lastSave = NullRec

EmptySaved == [slug \in Slugs |-> NoSaved]

\* the chat window is closed and the store untouched
QuietChat ==
  /\ ChatInit({EmptyStore}, {[userCode |-> "a", testResult |-> Null]})
  /\ SavedInit({EmptySaved})

(***************************************************************************)
(* The state once the module body has run (lines 9-266), before the first  *)
(* promise reaction: everything installed, the initial parse requested.    *)
(***************************************************************************)
ScriptInit(paths, titles, buttons) ==
  /\ pathname \in paths
  /\ domTitle \in titles
  /\ \E button \in buttons : runButton = attachRunButtonListener(button)
  /\ resultDiv = NoResultDiv
  /\ problemDetails = NullRec
  /\ lastSentCode = Null
  /\ lastTestResult = NullRec
  /\ lastSentTestResult = NullRec
  /\ activeIntervals = <<>>
  /\ debounceTimer = NoTimer
  /\ lastSeenTitle = Null
  /\ observers = {"observer", "buttonObserver"}
  /\ listeners = {"message", "keydown", "beforeunload"}
  /\ storeSlug = Null
  /\ liveTimeouts = {}
  /\ intervals = [h \in {} |-> 0]
  /\ pendingParse = IF ProblemShaped(pathname)
                      THEN [problemSlug |-> At(Split(pathname), 2),
                            details |-> parseLeetCodeProblem(domTitle)]
                      ELSE NoPending
  /\ pendingResult = NoPending
  /\ outbox = <<>>
  /\ lastUpdate = NullRec
  /\ lastOp = "Init"
  /\ stalePolls = {}

InitOn(paths, titles, buttons) ==
  /\ ScriptInit(paths, titles, buttons)
  /\ CallInit(QuietCalls)
  /\ ParseInit(QuietPages)
  /\ QuietChat

(***************************************************************************)
(* Spec: editing and navigating.  The page changes location and title,     *)
(* the editor posts code, and the user re-triggers result monitoring with  *)
(* the keyboard chord while the result area shows a finished run.          *)
(***************************************************************************)
Init == InitOn(Paths, DomTitles, {NoButton})

ShownResults == {div \in ResultDivs : SeesTerminal(div)}

ResultShown(div) == div \in ShownResults /\ ResultMutation(div)

ChordOnResult == SeesTerminal(resultDiv) /\ KeyChord

Next ==
  \/ \E code \in Codes : CodeUpdate(code)
  \/ ParseResolve
  \/ ParseReject
  \/ \E text \in DomTitles : TitleMutation(text)
  \/ \E div \in ResultDivs : ResultShown(div)
  \/ OtherMutation
  \/ \E handle \in liveTimeouts : DebounceFire(handle)
  \/ \E path \in Paths : Navigate(path)
  \/ ChordOnResult
  \/ \E handle \in DOMAIN intervals : Tick(handle)
  \/ ResultResolve

Spec == Init /\ [][Next]_vars

(***************************************************************************)
(* PollSpec: running the code on one problem page.  The run button comes   *)
(* and goes, runs are triggered at any time, the result area changes at    *)
(* any time, polls tick up to their ceiling, and the page may unload.      *)
(***************************************************************************)
InitPoll == InitOn({PathTwoSum}, {"Two Sum"}, {NoButton, NewButton})

NextPoll ==
  \/ \E code \in Codes : CodeUpdate(code)
  \/ ParseResolve
  \/ ParseReject
  \/ \E present \in BOOLEAN : RunButtonMutation(present)
  \/ \E div \in ResultDivs : ResultMutation(div)
  \/ OtherMutation
  \/ \E handle \in liveTimeouts : DebounceFire(handle)
  \/ RunClick
  \/ KeyChord
  \/ \E handle \in DOMAIN intervals : Tick(handle)
  \/ ResultResolve
  \/ Unload

PollSpec == InitPoll /\ [][NextPoll]_vars

(***************************************************************************)
(* PageSpec: the page re-rendering.  Bursts of mutations, title changes,   *)
(* location changes, the debounce timer, and the page unloading.           *)
(***************************************************************************)
NextPage ==
  \/ ParseResolve
  \/ ParseReject
  \/ \E text \in PaddedTitles : TitleMutation(text)
  \/ \E present \in BOOLEAN : RunButtonMutation(present)
  \/ OtherMutation
  \/ \E handle \in liveTimeouts : DebounceFire(handle)
  \/ \E path \in Paths : Navigate(path)
  \/ Unload

InitPage == InitOn(Paths, DomTitles, {NoButton, NewButton})

PageSpec == InitPage /\ [][NextPage]_vars

\* a timeout that stays armed fires: the debounce delay elapses
PageFairSpec ==
  PageSpec /\ WF_vars(\E handle \in liveTimeouts : DebounceFire(handle))

(***************************************************************************)
(* StreamSpec: one call of callGeminiApi against a provider that opens or  *)
(* refuses the stream, delivers chunks, fails or ends.                     *)
(***************************************************************************)
ScriptAtRest == ScriptInit({PathTwoSum}, {"Two Sum"}, {NoButton})

InitStream ==
  /\ ScriptAtRest
  /\ CallInit(Calls(ApiKeys, {<<>>}, {Null}, {"hi"}))
  /\ ParseInit(QuietPages)
  /\ QuietChat

NextStream ==
  \/ FirstNext
  \/ StreamOpened
  \/ \E e \in Failures : StreamRefused(e)
  \/ \E chunk \in Chunks : ChunkArrives(chunk)
  \/ \E now \in 0..MaxClock : PartInspected(now)
  \/ \E e \in Failures : StreamFails(e)
  \/ StreamEnds

StreamSpec == InitStream /\ [][NextStream]_vars

(***************************************************************************)
(* PromptSpec: the request callGeminiApi builds, for every combination of  *)
(* key, history, context and message.                                      *)
(***************************************************************************)
InitPrompt ==
  /\ ScriptAtRest
  /\ CallInit(Calls(ApiKeys, Histories, ContextTexts, UserMessages))
  /\ ParseInit(QuietPages)
  /\ QuietChat

NextPrompt ==
  \/ FirstNext
  \/ StreamOpened
  \/ \E e \in Failures : StreamRefused(e)
  \/ StreamEnds

PromptSpec == InitPrompt /\ [][NextPrompt]_vars

(***************************************************************************)
(* ParserSpec: parseLeetCodetestResult applied to the pages of the model.  *)
(***************************************************************************)
InitParser == ScriptAtRest /\ CallInit(QuietCalls) /\ ParseInit(CasePages) /\ QuietChat

NextParser ==
  \/ ParsePage
  \/ \E next \in ErrorPages : Rerender(next)

ParserSpec == InitParser /\ [][NextParser]_vars

(***************************************************************************)
(* ChatSpec: the chat window on one problem.  The user sends messages, the *)
(* provider stream yields events, completes or raises, failed messages are *)
(* retried, and the page context changes meanwhile.                        *)
(***************************************************************************)
\* the store before the session: no entry, or chats saved earlier
SessionStores ==
  { EmptyStore,
    [EmptyStore EXCEPT !["two-sum"] =
       Entry(<<Chat("chat2", <<>>, 1000),
               Chat("chat1", <<Message(1, TRUE, <<"h", "i">>, "succeeded")>>, 1000)>>)] }

InitChat ==
  /\ ScriptAtRest
  /\ CallInit(QuietCalls)
  /\ ParseInit(QuietPages)
  /\ ChatInit(SessionStores, Contexts)
  /\ SavedInit({EmptySaved})

NextChat ==
  \/ \E userText \in UserTexts : SendMessage(userText)
  \/ BeginStreaming
  \/ \E ev \in StreamEvents : EventArrives(ev)
  \/ \E now \in Times : StreamCompletes(now)
  \/ \E errorMessage \in StreamErrors : StreamThrows(errorMessage)
  \/ Retry
  \/ \E next \in Contexts : ContextChanges(next)

ChatSpec == InitChat /\ [][NextChat]_vars

(***************************************************************************)
(* DbSpec: saveChat and loadChats called on the "chats" store, in any      *)
(* order, starting from stores written before lastUpdated existed.         *)
(***************************************************************************)
StoredLists == {<<>>, <<Message(1, TRUE, <<"h", "i">>, "succeeded")>>}

OldStores ==
  { EmptyStore,
    [EmptyStore EXCEPT !["two-sum"] = Entry(<<>>)],
    [EmptyStore EXCEPT !["two-sum"] = Entry(<<Chat("chat1", <<>>, NoTime)>>)],
    [EmptyStore EXCEPT !["two-sum"] =
       Entry(<<Chat("chat1", <<>>, 1000), Chat("chat2", <<>>, NoTime)>>)],
    [EmptyStore EXCEPT !["add-two-numbers"] =
       Entry(<<Chat("chat2", <<>>, NoTime), Chat("chat1", <<>>, NoTime)>>)] }

InitDb ==
  /\ ScriptAtRest
  /\ CallInit(QuietCalls)
  /\ ParseInit(QuietPages)
  /\ ChatInit(OldStores, {[userCode |-> "a", testResult |-> Null]})
  /\ SavedInit({EmptySaved})

NextDb ==
  \/ \E slug \in Slugs, chatId \in ChatIds, list \in StoredLists, timestamp \in Times :
        SaveChat(slug, chatId, list, timestamp)
  \/ \E slug \in Slugs, now \in Times : LoadChats(slug, now)

DbSpec == InitDb /\ [][NextDb]_vars

(***************************************************************************)
(* SavedSpec: saveSavedResponse called on the "saved-responses" store, any *)
(* id under any slug, in any order.                                        *)
(***************************************************************************)
SavedStores ==
  { EmptySaved,
    [EmptySaved EXCEPT !["two-sum"] = Saved(<<>>)],
    [EmptySaved EXCEPT !["two-sum"] = Saved(<<"msg1", "msg2">>)] }

InitSaved ==
  /\ ScriptAtRest
  /\ CallInit(QuietCalls)
  /\ ParseInit(QuietPages)
  /\ ChatInit({EmptyStore}, {[userCode |-> "a", testResult |-> Null]})
  /\ SavedInit(SavedStores)

NextSaved ==
  \E slug \in Slugs, messageId \in MessageIds : SaveSavedResponse(slug, messageId)

SavedSpec == InitSaved /\ [][NextSaved]_vars

(***************************************************************************)
(* ProblemSpec: parseLeetCodeProblem called on problem pages whose         *)
(* description container has any children, rendered again in between.      *)
(***************************************************************************)
InitProblem ==
  /\ ScriptAtRest
  /\ CallInit(QuietCalls)
  /\ ParseInit(ProblemPages)
  /\ QuietChat

NextProblem ==
  \/ ParseProblem
  \/ \E next \in ProblemPages : Rerender(next)

ProblemSpec == InitProblem /\ [][NextProblem]_vars

(***************************************************************************)
(* Properties                                                              *)
(***************************************************************************)
\* the slug sendUnifiedUpdate reads from the location, line 26
CurrentSlug == At(Split(pathname), 2)

IdentityKnown == problemDetails # NullRec /\ ~Falsy(CurrentSlug)

Emits == outbox' # <<>>

\* two test results with the same cases
DeepEqual(a, b) == a = b

\* the second of two consecutive CODE_UPDATE calls with the same code,
\* made while the problem identity is known, emits nothing
SecondCallSilent ==
  \A code \in Codes :
    (/\ lastOp = "CodeUpdate"
     /\ lastOp' = "CodeUpdate"
     /\ code = lastSentCode
     /\ IdentityKnown
     /\ CodeUpdate(code)) => ~Emits

C2_CodeChangeSurfaced ==
  [][\A code \in Codes :
       (/\ lastOp' = "CodeUpdate"
        /\ code # lastSentCode
        /\ IdentityKnown
        /\ CodeUpdate(code))
       => /\ Len(outbox') = 1
          /\ outbox'[1].type = "PROBLEM_UPDATE"
          /\ outbox'[1].code = code
          /\ outbox'[1].testResult = lastTestResult
          /\ lastSentCode' = code
          /\ lastSentTestResult' = lastTestResult]_vars

\* a changed code has just been sent together with a recorded test result
C2_Witness ==
  /\ lastOp = "CodeUpdate"
  /\ outbox # <<>>
  /\ outbox[1].testResult # NullRec
  /\ outbox[1].testResult = lastSentTestResult
  /\ outbox[1].code = lastSentCode

\* C3: while no problem has been parsed or the location yields no slug,
\* nothing is emitted and a CODE_UPDATE leaves the last-sent code and test
\* result unchanged; a dropped code is not queued: as long as no code has
\* been sent, only a CODE_UPDATE emits.
C3_DroppedNotQueued ==
  [][/\ Emits => IdentityKnown'
     /\ (lastOp' = "CodeUpdate" /\ ~IdentityKnown)
          => UNCHANGED <<lastSentCode, lastSentTestResult>>
     /\ (Emits /\ lastSentCode = Null) => lastOp' = "CodeUpdate"]_vars

\* a CODE_UPDATE has just been dropped for want of a parsed problem or slug
C3_Witness ==
  /\ lastOp = "CodeUpdate"
  /\ ~IdentityKnown
  /\ lastSentCode = Null
  /\ outbox = <<>>

\* C4 as stated: when the parse of a problem-shaped location yields a new
\* title, the recorded and the last-sent test result are reset and, if a
\* code has been sent, an update with that code and the new problem's slug
\* and details is emitted at once.
C4_ReemitOnNewProblem ==
  [][(/\ pendingParse # NoPending
      /\ ~Falsy(pendingParse.problemSlug)
      /\ pendingParse.details.title # TitleOf(problemDetails)
      /\ ParseResolve)
     => /\ lastTestResult' = NullRec
        /\ lastSentTestResult' = NullRec
        /\ lastSentCode # Null
             => /\ Emits
                /\ outbox'[1].code = lastSentCode
                /\ outbox'[1].title = pendingParse.details.title
                /\ outbox'[1].problemSlug = pendingParse.problemSlug]_vars

\* a location is problem-shaped: "problems" followed by a non-empty slug
OnProblemPage(path) ==
  LET pathSegments == Split(path)
  IN  At(pathSegments, 1) = "problems" /\ ~Falsy(At(pathSegments, 2))

\* C5 as stated: an update is emitted only while the location is
\* problem-shaped, and its problemSlug is that location's slug segment.
C5_OnlyOnProblemPage ==
  [][Emits => /\ OnProblemPage(pathname')
              /\ outbox'[1].problemSlug = At(Split(pathname'), 2)]_vars

PollsLive == DOMAIN intervals

\* C6: at most one run-result poll is live at any time: the list of
\* registered poll timers and the set of live poll timers have at most one
\* element, the same one.
C6_AtMostOnePoll ==
  /\ Len(activeIntervals) <= 1
  /\ Cardinality(PollsLive) <= 1
  /\ PollsLive = Range(activeIntervals)

\* a trigger has just started a poll and it is the only one
C6_Witness ==
  /\ lastOp \in {"RunClick", "KeyChord"}
  /\ Len(activeIntervals) = 1
  /\ PollsLive = {activeIntervals[1]}
  /\ intervals[activeIntervals[1]] = 0

\* C7: a poll cycle performs at most 40 ticks: a live cycle has ticked
\* fewer than maxChecks times, only a live cycle ticks, and the tick that
\* sees a terminal keyword or is the 40th clears the cycle and removes it
\* from the active list.
C7_PollTerminates ==
  /\ [](\A handle \in PollsLive : intervals[handle] < maxChecks)
  /\ [][lastOp' = "Tick"
         => \E handle \in PollsLive :
              /\ Tick(handle)
              /\ (SeesTerminal(resultDiv) \/ intervals[handle] = maxChecks - 1)
                   => /\ handle \notin DOMAIN intervals'
                      /\ handle \notin Range(activeIntervals')]_vars

\* the 40th tick of a cycle that never saw a result has just cleared it
C7_Witness ==
  /\ lastOp = "Tick"
  /\ ~SeesTerminal(resultDiv)
  /\ PollsLive = {}
  /\ activeIntervals = <<>>

\* C8 as stated: a tick that sees a terminal keyword has the result parsed
\* and offered to the coalescer; a poll never stops on a terminal keyword
\* without that.
C8_TerminalResultParsed ==
  [][(lastOp' = "Tick" /\ SeesTerminal(resultDiv)) => pendingResult' # NoPending]_vars

\* the beforeunload handler has run: only it disconnects the observers
Unloaded == observers = {}

\* C9 as stated: once the unload handler has run no timer is live, and no
\* later mutation, key press, click or CODE_UPDATE starts a timer or emits
\* an update.
C9_UnloadStopsEverything ==
  [][Unloaded' => /\ liveTimeouts' = {}
                  /\ DOMAIN intervals' = {}
                  /\ Unloaded => ~Emits]_vars

\* C10: at most one debounce timer is pending and it is the one the last
\* mutation armed; a title check consumes the pending timer and reads the
\* title displayed when it runs; a pending timer leads to its check (or is
\* cancelled by the unload handler).
C10_Debounced ==
  /\ [](Cardinality(liveTimeouts) <= 1 /\ liveTimeouts \subseteq {debounceTimer})
  /\ [][/\ (lastOp' = "Mutation" /\ "observer" \in observers)
            => liveTimeouts' = {debounceTimer'}
        /\ lastOp' = "TitleCheck"
            => /\ liveTimeouts = {debounceTimer}
               /\ liveTimeouts' = {}
               /\ lastSeenTitle' # lastSeenTitle => lastSeenTitle' = domTitle
               /\ pendingParse' # NoPending
                    => pendingParse'.details = parseLeetCodeProblem(domTitle)]_vars
  /\ (liveTimeouts # {}) ~> (liveTimeouts = {})

\* the title check of a burst has just run and taken up the displayed title
C10_Witness ==
  /\ lastOp = "TitleCheck"
  /\ liveTimeouts = {}
  /\ debounceTimer # NoTimer
  /\ lastSeenTitle = domTitle
  /\ pendingParse # NoPending

\* the title check has started parseLeetCodeProblem
Reparses == pendingParse' # NoPending

IsThought(e) == "thought" \in DOMAIN e
IsText(e) == "text" \in DOMAIN e

\* positions of the emitted events carrying a timing field
StartCarriers == {i \in 1..Len(events) : "thinkingStartTime" \in DOMAIN events[i]}
EndCarriers == {i \in 1..Len(events) : "thinkingEndTime" \in DOMAIN events[i]}

\* event i is a text event with a thought before it and no text event after
\* a thought before it
FirstTextAfterThought(i) ==
  /\ IsText(events[i])
  /\ \E j \in 1..(i - 1) : IsThought(events[j])
  /\ \A j \in 1..(i - 1) :
       IsText(events[j]) => \A k \in 1..(j - 1) : ~IsThought(events[k])

\* C12 as stated: thinkingStartTime is on at most one event, the first
\* thought; thinkingEndTime is on at most one event, the first text after a
\* thought; without a thought no event carries a timing field.
C12_StreamingTiming ==
  /\ Cardinality(StartCarriers) <= 1
  /\ \A i \in StartCarriers :
       IsThought(events[i]) /\ \A j \in 1..(i - 1) : ~IsThought(events[j])
  /\ Cardinality(EndCarriers) <= 1
  /\ \A i \in EndCarriers : FirstTextAfterThought(i)
  /\ (\A i \in 1..Len(events) : ~IsThought(events[i]))
       => (StartCarriers = {} /\ EndCarriers = {})

\* an event without its timing field, and the event a part stands for
Bare(e) == IF IsThought(e) THEN [thought |-> e.thought] ELSE [text |-> e.text]
EventOf(part) == IF part.thought THEN [thought |-> part.text] ELSE [text |-> part.text]

\* the parts inspected so far that have a non-empty text, in arrival order
PartsWithText == SelectSeq(consumed, LAMBDA part : ~Falsy(part.text))

\* C13: the emitted events correspond one-to-one and in arrival order to
\* the inspected parts with a non-empty text, a thought part giving a
\* thought event and any other a text event; no event has both fields; a
\* step that inspects no part (a chunk without parts among them) emits
\* nothing.
C13_EventsFollowParts ==
  /\ [](/\ Len(events) = Len(PartsWithText)
        /\ \A i \in 1..Len(events) :
             /\ Bare(events[i]) = EventOf(PartsWithText[i])
             /\ ~(IsThought(events[i]) /\ IsText(events[i])))
  /\ [][Len(consumed') = Len(consumed) => events' = events]_vars

\* a thought, a part without text and a text were inspected: two events
C13_Witness ==
  /\ position = "completed"
  /\ Len(consumed) = 3
  /\ Falsy(consumed[2].text)
  /\ Len(events) = 2
  /\ IsThought(events[1])
  /\ IsText(events[2])
  /\ chunks >= 2

\* C14: with an empty, null or non-string API key the first next() throws
\* "Invalid API key provided." as it is, no request is made to the
\* provider and no event is emitted.
C14_InvalidKeyFailsFast ==
  (position # "start" /\ (FalsyValue(args.apiKey) \/ args.apiKey.typeof # "string"))
    => /\ position = "thrown"
       /\ thrown = [name |-> "Error", message |-> <<"Invalid API key provided.">>]
       /\ request = NullRec
       /\ failure = NullRec
       /\ events = <<>>

\* a number was passed as the key and the first next() has thrown
C14_Witness ==
  /\ args.apiKey.typeof = "number"
  /\ position = "thrown"
  /\ thrown = InvalidKeyError

\* the status codes of the taxonomy in the order they are looked for
StatusMessages ==
  << [code |-> <<"4","0","0">>, message |-> InvalidRequest],
     [code |-> <<"4","0","1">>, message |-> AuthFailed],
     [code |-> <<"4","0","3">>, message |-> PermissionDenied],
     [code |-> <<"4","0","4">>, message |-> NotFound],
     [code |-> <<"4","2","9">>, message |-> RateLimit],
     [code |-> <<"5","0","0">>, message |-> Unavailable],
     [code |-> <<"5","0","3">>, message |-> Unavailable] >>

CodesFound(text) == {k \in 1..Len(StatusMessages) : includes(text, StatusMessages[k].code)}

MessageFor(text) ==
  IF CodesFound(text) = {} THEN Unexpected(text)
  ELSE LET k == CHOOSE c \in CodesFound(text) : \A d \in CodesFound(text) : c <= d
       IN  StatusMessages[k].message

\* C15: a provider failure with a message text, at the stream request or
\* while iterating, ends the call with the error of the first status code
\* of the taxonomy found in the text, or the generic wrapped message; the
\* events emitted before stay as they are and none is emitted afterwards.
C15_ErrorMapping ==
  /\ [][(position # "thrown" /\ position' = "thrown" /\ failure' \in ErrorFailures)
         => /\ position \in {"awaitingStream", "awaitingChunk"}
            /\ thrown' = [name |-> "Error", message |-> MessageFor(failure'.message)]
            /\ events' = events]_vars
  /\ [][position = "thrown" => events' = events /\ position' = "thrown"]_vars

\* the stream failed with a 503 after two events were delivered
C15_Witness ==
  /\ position = "thrown"
  /\ failure = [kind |-> "Error", message |-> <<"5","0","3">>]
  /\ thrown.message = Unavailable
  /\ Len(events) = 2

Taxonomy ==
  {InvalidRequest, AuthFailed, PermissionDenied, NotFound, RateLimit, Unavailable}
    \cup {Unexpected(text) : text \in FailureTexts}

\* C16 as stated: whatever the provider throws, the call ends with a thrown
\* Error carrying one of the taxonomy's messages, and never completes.
C16_EveryFailureInTaxonomy ==
  failure # NullRec
    => /\ position = "thrown"
       /\ thrown # NullRec
       /\ thrown.name = "Error"
       /\ thrown.message \in Taxonomy

FinalTurn == request.contents[Len(request.contents)]

\* C17: the message list given to the provider has one entry per history
\* message, in order, with role "user" for a user message and "model"
\* otherwise and the message's text, followed by one user turn whose text
\* ends with the latest user message.
C17_MessageList ==
  request # NullRec
    => LET contents == request.contents
           history == args.chatHistory
       IN  /\ Len(contents) = Len(history) + 1
           /\ \A i \in 1..Len(history) :
                /\ contents[i].role = IF history[i].isUser THEN "user" ELSE "model"
                /\ contents[i].parts = <<[text |-> <<history[i].text>>]>>
           /\ FinalTurn.role = "user"
           /\ Len(FinalTurn.parts) = 1
           /\ LET text == FinalTurn.parts[1].text
              IN  text[Len(text)] = args.currentUserMessage

\* a history of a user turn and a model turn was sent with the final turn
C17_Witness ==
  /\ request # NullRec
  /\ Len(args.chatHistory) = 2
  /\ args.chatHistory[1].isUser
  /\ ~args.chatHistory[2].isUser
  /\ Len(request.contents) = 3
  /\ request.contents[2].role = "model"

\* the context items the final turn is said to embed, by their labels
ContextLabels == {"Problem Details:", "User Code:", "Test Result:"}

\* C18 as stated: the final user turn embeds problem details, user code
\* and test result, each verbatim or replaced by a placeholder when null
\* or empty.
C18_ThreeContextItems ==
  request # NullRec
    => LET text == FinalTurn.parts[1].text
       IN  /\ \A label \in ContextLabels : \E i \in 1..Len(text) : text[i] = label
           /\ text[2] = IF args.problemDetails \in {Null, ""}
                          THEN "No problem details provided." ELSE args.problemDetails
           /\ text[4] = IF args.userCode \in {Null, ""}
                          THEN "No code provided." ELSE args.userCode

\* the content blocks that follow the headers of one type, in page order
Blocks(type) ==
  LET of == SelectSeq(doc.sections, LAMBDA s : s.type = type /\ s.hasContent)
  IN  [i \in 1..Len(of) |-> of[i].content]

\* the parser is on its visible + collapsed path: no error indicator, an
\* Output and an Expected block, and a second Input block with line content
CollapsedPath ==
  /\ doc.container = "panel"
  /\ doc.result # "Compile Error"
  /\ Len(Blocks("Input")) >= 2
  /\ Len(Blocks("Output")) >= 1
  /\ Len(Blocks("Expected")) >= 1
  /\ Blocks("Input")[2].cm

\* K, the keys derived from the first Input block, and L, the lines of the
\* collapsed Input block
KeyCount == Len(parseInput(Blocks("Input")[1]).keys)
LineCount == Len(Blocks("Input")[2].lines)

\* C19: on the visible + collapsed path the parser returns L / K cases when
\* K > 0 and K divides L, and no case otherwise (K = 0 included).
C19_Divisibility ==
  (parsed # NullRec /\ CollapsedPath)
    => /\ ~parsed.threw
       /\ Len(parsed.cases) = IF KeyCount > 0 /\ LineCount % KeyCount = 0
                                THEN LineCount \div KeyCount ELSE 0

\* four collapsed lines for two keys were parsed into two cases
C19_Witness ==
  /\ parsed # NullRec
  /\ CollapsedPath
  /\ KeyCount = 2
  /\ LineCount = 4
  /\ Len(parsed.cases) = 2

\* the element the parser takes as the result indicator, for the container
\* it was given
ErrorIndicator(keyword) == doc.container # "none" /\ doc.result = keyword

\* C20 as stated: for any container, a compile-error indicator gives one
\* case with expected "NA (compile error)" and the NA input, a
\* runtime-error indicator gives one case with expected null, and a
\* missing error element gives the "Unknown ... error" text.
C20_ErrorCaseShape ==
  parsed # NullRec
    => /\ ErrorIndicator("Compile Error")
            => /\ ~parsed.threw
               /\ Len(parsed.cases) = 1
               /\ parsed.cases[1].expected = "NA (compile error)"
               /\ DOMAIN parsed.cases[1].input = {"NA (compile error)"}
               /\ parsed.cases[1].input["NA (compile error)"].text = "NA (compile error)"
               /\ doc.error = Undefined
                    => parsed.cases[1].output[2] = "Unknown compile error"
       /\ ErrorIndicator("Runtime Error")
            => /\ ~parsed.threw
               /\ Len(parsed.cases) = 1
               /\ parsed.cases[1].expected = Null
               /\ doc.error = Undefined
                    => parsed.cases[1].output[2] = "Unknown runtime error"

(***************************************************************************)
(* C21: parseLeetCodetestResult never throws or rejects, whatever the      *)
(* shape of the page: with no container, no headers, an empty bucket, one  *)
(* Input / Output / Expected triple and no second Input block, a second    *)
(* block without lines, or undecodable values, the call completes with a   *)
(* (possibly empty) list.                                                  *)
(***************************************************************************)
C21_NeverThrows ==
  parsed # NullRec => ~parsed.threw

\* the block a collapsed case takes its value from: the second block of the
\* type, or the first when there is no second
ValueBlock(type) ==
  IF Len(Blocks(type)) >= 2 THEN Blocks(type)[2] ELSE Blocks(type)[1]

ValueOf(case, type) == IF type = "Output" THEN case.output ELSE case.expected

(***************************************************************************)
(* C22: the case with chunk index j (the j+1-th case returned) has its     *)
(* output and expected from the second Output / Expected block, or the     *)
(* first when there is no second: from a line-based block the text of line *)
(* j, or "" when the block has j or fewer lines; from a plain-text block   *)
(* the same string for every case, whatever j is.                          *)
(***************************************************************************)
C22_ValuesByChunk ==
  (parsed # NullRec /\ CollapsedPath)
    => \A c \in 1..Len(parsed.cases) : \A type \in {"Output", "Expected"} :
         LET block == ValueBlock(type)
             value == ValueOf(parsed.cases[c], type)
         IN  /\ (block.cm /\ Len(block.lines) >= c) => value = TrimText(block.lines[c])
             /\ (block.cm /\ Len(block.lines) < c) => value = ""
             /\ ~block.cm => /\ value = ValueOf(parsed.cases[1], type)
                             /\ value = IF block.plain = Undefined
                                          THEN "" ELSE TrimText(block.plain)

\* two cases were parsed: both took the one plain-text output, and the
\* second found no line for it in the one-line expected block
C22_Witness ==
  /\ parsed # NullRec
  /\ CollapsedPath
  /\ Len(parsed.cases) = 2
  /\ Len(Blocks("Output")) = 1
  /\ ~ValueBlock("Output").cm
  /\ parsed.cases[1].output = "x"
  /\ parsed.cases[2].output = "x"
  /\ ValueBlock("Expected").cm
  /\ Len(ValueBlock("Expected").lines) = 1
  /\ parsed.cases[1].expected = "[0,1]"
  /\ parsed.cases[2].expected = ""

\* the moves of a message's status that the state machine of section 4.4 has
StatusMove(before, after) ==
  \/ before = "sending" /\ after = "streaming"
  \/ before = "streaming" /\ after \in {"succeeded", "failed"}

StoredChats == store[CurrentProblemSlug].chats
StoredSessions ==
  SelectSeq(StoredChats, LAMBDA chat : chat.id = CurrentChatId)

(***************************************************************************)
(* C24: when the stream completes without error the assistant message      *)
(* becomes succeeded and the store then holds, under the problem slug and  *)
(* the chat id, all the messages of the session with the time of the save; *)
(* the store is written by no other step of the session, so an assistant   *)
(* message is stored as succeeded only once its stream has completed and   *)
(* never while it is sending or streaming.                                 *)
(***************************************************************************)
C24_CompletionPersists ==
  /\ [][/\ (\E now \in Times : StreamCompletes(now))
             => /\ StatusOf(thread') = "succeeded"
                /\ Len(SelectSeq(store'[CurrentProblemSlug].chats,
                                 LAMBDA chat : /\ chat.id = CurrentChatId
                                               /\ chat.messages = thread'
                                               /\ chat.lastUpdated \in Times)) = 1
        /\ store' # store => StatusOf(thread) = "streaming"
                               /\ StatusOf(thread') = "succeeded"]_vars
  /\ [](\A s \in 1..Len(StoredSessions) :
          \A i \in 1..Len(StoredSessions[s].messages) :
            LET m == StoredSessions[s].messages[i]
            IN  ~m.isUser => /\ m.status \in {"succeeded", "failed"}
                             /\ i <= Len(thread)
                             /\ m.status = "succeeded" => thread[i].status = "succeeded")

\* the second turn has completed and the store holds the four messages of
\* the session next to the chat saved earlier
C24_Witness ==
  /\ Len(thread) = 4
  /\ StatusOf(thread) = "succeeded"
  /\ Len(StoredChats) = 2
  /\ StoredChats[1].id = "chat2"
  /\ StoredChats[2].messages = thread

\* the message the controller works on
Last(list) == list[Len(list)]

\* the text chunks of an event sequence joined, and its thoughts in order
RECURSIVE TextOf(_)
TextOf(evs) ==
  IF evs = <<>> THEN <<>>
  ELSE LET ev == evs[Len(evs)]
       IN  TextOf(SubSeq(evs, 1, Len(evs) - 1)) \o
             (IF Blank(ev.thought) /\ ~Blank(ev.text) THEN ev.text ELSE <<>>)

RECURSIVE ThoughtsOf(_)
ThoughtsOf(evs) ==
  IF evs = <<>> THEN <<>>
  ELSE LET ev == evs[Len(evs)]
       IN  ThoughtsOf(SubSeq(evs, 1, Len(evs) - 1)) \o
             (IF ~Blank(ev.thought) THEN <<ev.thought>> ELSE <<>>)

\* the thinking log as a list: a null log has no thought
LogOf(m) == IF m.thinking = NoLog THEN <<>> ELSE m.thinking

(***************************************************************************)
(* C25: when the stream raises, after any number of events, the assistant  *)
(* message becomes failed and the error's message is the one surfaced; the *)
(* message keeps the text, the thinking log and the times it had, which    *)
(* are those of the events received before; and the store is not written,  *)
(* so the failed message is not stored as a completed turn.                *)
(***************************************************************************)
C25_FailureKeepsPartial ==
  /\ [][\A errorMessage \in StreamErrors :
          StreamThrows(errorMessage)
            => /\ StatusOf(thread') = "failed"
               /\ surfaced' = errorMessage
               /\ Last(thread').text = Last(thread).text
               /\ Last(thread').thinking = Last(thread).thinking
               /\ Last(thread').thinkingStartTime = Last(thread).thinkingStartTime
               /\ Last(thread').thinkingEndTime = Last(thread).thinkingEndTime
               /\ store' = store]_vars
  /\ [](StatusOf(thread) = "failed"
          => /\ Last(thread).text = TextOf(flight.arrived)
             /\ LogOf(Last(thread)) = ThoughtsOf(flight.arrived)
             /\ surfaced \in StreamErrors
             /\ \A s \in 1..Len(StoredSessions) :
                  Len(StoredSessions[s].messages) >= Len(thread)
                    => StoredSessions[s].messages[Len(thread)].status # "succeeded")

\* the stream raised after a thought and a text: the failed message shows
\* both, and the error
C25_Witness ==
  /\ StatusOf(thread) = "failed"
  /\ Last(thread).text = <<"a">>
  /\ Last(thread).thinking = << <<"t">> >>
  /\ Last(thread).thinkingStartTime = 1000
  /\ surfaced = "Streaming failed"

\* an event whose text and thought are both undefined or empty
BlankEvent(ev) == Blank(ev.text) /\ Blank(ev.thought)

ArrivedPrefix(k) == SubSeq(flight.arrived, 1, k)

(***************************************************************************)
(* C27: the events of one assistant message are applied in the order they  *)
(* arrive, one at a time: in every state the message's text and thinking   *)
(* log are the text chunks joined and the thoughts listed of one prefix of *)
(* the events that arrived, and each step takes in at most one more event, *)
(* so no text is shown ahead of a thought that arrived before it.          *)
(***************************************************************************)
C27_AppliedInArrivalOrder ==
  /\ [](thread # <<>>
          => \E k \in 0..Len(flight.arrived) :
               /\ Last(thread).text = TextOf(ArrivedPrefix(k))
               /\ LogOf(Last(thread)) = ThoughtsOf(ArrivedPrefix(k)))
  /\ [][\/ flight'.arrived = flight.arrived
        \/ flight'.arrived = <<>>
        \/ /\ Len(flight'.arrived) = Len(flight.arrived) + 1
           /\ SubSeq(flight'.arrived, 1, Len(flight.arrived)) = flight.arrived]_vars

\* two thoughts arrived one after the other and the log lists them in that
\* order
C27_Witness ==
  /\ StatusOf(thread) = "streaming"
  /\ Len(flight.arrived) = 2
  /\ flight.arrived[1].thought = <<"t">>
  /\ flight.arrived[2].thought = <<"u">>
  /\ Last(thread).thinking = << <<"t">>, <<"u">> >>

(***************************************************************************)
(* C28: a retry takes a failed message back to sending with the request of *)
(* the failed attempt: the same problem / code / test-result snapshot, the *)
(* same user message and the same history, also when the page context has  *)
(* changed since.  The request stays the one of the user turn before the   *)
(* message, and when the stream of the retried attempt completes the       *)
(* message is succeeded.                                                   *)
(***************************************************************************)
C28_RetrySameRequest ==
  /\ [][/\ Retry => /\ StatusOf(thread) = "failed"
                    /\ StatusOf(thread') = "sending"
                    /\ flight'.request = flight.request
        /\ (flight.retried /\ \E now \in Times : StreamCompletes(now))
             => /\ StatusOf(thread') = "succeeded"
                /\ flight'.request = flight.request]_vars
  /\ [](thread # <<>>
          => /\ flight.request.userMessage = thread[Len(thread) - 1].text
             /\ flight.request.history = SubSeq(thread, 1, Len(thread) - 2))

\* the code was changed after the attempt failed; the message was retried
\* and has succeeded on the snapshot taken when it was first sent
C28_Witness ==
  /\ flight.retried
  /\ StatusOf(thread) = "succeeded"
  /\ Last(thread).text = <<"a">>
  /\ flight.request.snapshot.userCode = "a"
  /\ context.userCode = "b"

(***************************************************************************)
(* C29: loadChats returns the chats stored under the slug, in their order, *)
(* each with its id and messages as stored; lastUpdated is the stored one  *)
(* where the entry has it and the current time where it lacks it; a slug   *)
(* with nothing stored gives the empty list; the store is not written.     *)
(***************************************************************************)
C29_LoadBackfills ==
  [][\A slug \in Slugs, now \in Times :
       LoadChats(slug, now)
         => LET stored == store[slug]
                result == loaded'.chats
            IN  /\ ~stored.present => result = <<>>
                /\ stored.present
                     => /\ Len(result) = Len(stored.chats)
                        /\ \A i \in 1..Len(result) :
                             /\ result[i].id = stored.chats[i].id
                             /\ result[i].messages = stored.chats[i].messages
                             /\ stored.chats[i].lastUpdated # NoTime
                                  => result[i] = stored.chats[i]
                             /\ stored.chats[i].lastUpdated = NoTime
                                  => result[i].lastUpdated = now
                /\ store' = store]_vars

\* a list with a stamped and an unstamped chat was loaded at time 2000: the
\* first kept its 1000, the second got 2000
C29_Witness ==
  /\ loaded # NullRec
  /\ loaded.now = 2000
  /\ Len(loaded.chats) = 2
  /\ store[loaded.slug].chats[1].lastUpdated = 1000
  /\ store[loaded.slug].chats[2].lastUpdated = NoTime
  /\ loaded.chats[1].lastUpdated = 1000
  /\ loaded.chats[2].lastUpdated = 2000

\* the chat ids of a stored list occur once each
UniqueIds(chats) ==
  \A i, k \in 1..Len(chats) : chats[i].id = chats[k].id => i = k

(***************************************************************************)
(* C30: saveChat is an upsert on the list stored under the slug: a chat id *)
(* not in the list is added at its end, a chat id in the list has its      *)
(* messages and lastUpdated replaced where it stands, every other chat of  *)
(* the slug and every other slug is as before, and after any sequence of   *)
(* saves no list holds a chat id twice.                                    *)
(***************************************************************************)
C30_SaveUpserts ==
  /\ [][\A slug \in Slugs, chatId \in ChatIds, list \in StoredLists, timestamp \in Times :
          SaveChat(slug, chatId, list, timestamp)
            => LET before == store[slug].chats
                   after == store'[slug].chats
               IN  /\ store'[slug].present
                   /\ \A other \in Slugs \ {slug} : store'[other] = store[other]
                   /\ IF \E i \in 1..Len(before) : before[i].id = chatId
                        THEN /\ Len(after) = Len(before)
                             /\ \A i \in 1..Len(before) :
                                  after[i] = IF before[i].id = chatId
                                               THEN Chat(chatId, list, timestamp)
                                               ELSE before[i]
                        ELSE after = before \o <<Chat(chatId, list, timestamp)>>]_vars
  /\ [](\A slug \in Slugs : UniqueIds(store[slug].chats))

\* chat1 was saved again at time 2000: it is still first, with the new
\* messages, and the chat after it is as it was
C30_Witness ==
  /\ Len(store["two-sum"].chats) = 2
  /\ store["two-sum"].chats[1] =
       Chat("chat1", <<Message(1, TRUE, <<"h", "i">>, "succeeded")>>, 2000)
  /\ store["two-sum"].chats[2] = Chat("chat2", <<>>, NoTime)

(***************************************************************************)
(* C31: saveSavedResponse is idempotent. Saving an id the list of the slug *)
(* already holds calls no put and leaves every list as it was; a new id is *)
(* put at the end of the list, the ids before it kept in order; and no     *)
(* list ever holds an id twice.                                            *)
(***************************************************************************)
NoDuplicate(ids) == \A i, k \in 1..Len(ids) : ids[i] = ids[k] => i = k

C31_SaveIdempotent ==
  /\ [][\A slug \in Slugs, messageId \in MessageIds :
          SaveSavedResponse(slug, messageId) =>
            LET before == savedResponses[slug].ids
            IN  IF HasId(before, messageId)
                  THEN /\ ~lastSave'.put
                       /\ savedResponses' = savedResponses
                  ELSE /\ lastSave'.put
                       /\ savedResponses'[slug] = Saved(before \o <<messageId>>)
                       /\ \A other \in Slugs \ {slug} :
                            savedResponses'[other] = savedResponses[other]]_vars
  /\ [](\A slug \in Slugs : NoDuplicate(savedResponses[slug].ids))

\* an id was saved a second time, under a slug that holds another id too
C31_Witness ==
  /\ lastSave # NullRec
  /\ ~lastSave.put
  /\ Len(savedResponses[lastSave.slug].ids) >= 2
  /\ HasId(savedResponses[lastSave.slug].ids, lastSave.messageId)

\* a poll's parsed result is delivered and differs from the recorded one
DeliversNew ==
  /\ ResultResolve
  /\ ~DeepEqual(pendingResult, lastTestResult)

\* C32 as stated: a delivered result that differs from the recorded one,
\* once a code has been sent, is recorded and exactly one PROBLEM_UPDATE
\* with the unchanged code and the new result is emitted; a delivered
\* result deep-equal to the recorded one changes nothing and emits nothing.
C32_Original ==
  [][/\ (DeliversNew /\ lastSentCode # Null)
          => /\ lastTestResult' = pendingResult
             /\ Len(outbox') = 1
             /\ outbox'[1].type = "PROBLEM_UPDATE"
             /\ outbox'[1].code = lastSentCode
             /\ outbox'[1].testResult = pendingResult
             /\ lastSentCode' = lastSentCode
     /\ (ResultResolve /\ DeepEqual(pendingResult, lastTestResult))
          => /\ ~Emits
             /\ UNCHANGED <<problemDetails, lastSentCode, lastTestResult,
                            lastSentTestResult>>]_vars

\* C32 amended: a delivered result that differs from the recorded one is
\* always recorded; exactly one PROBLEM_UPDATE with the unchanged code and
\* the new result is emitted when the last-sent code is a non-empty string,
\* the problem identity is known and the result differs from the last-sent
\* one, and nothing is emitted otherwise; a delivered result deep-equal to
\* the recorded one changes nothing and emits nothing.
C32_PollDelivery ==
  [][/\ DeliversNew
          => /\ lastTestResult' = pendingResult
             /\ lastSentCode' = lastSentCode
             /\ IF /\ ~Falsy(lastSentCode)
                   /\ IdentityKnown
                   /\ ~DeepEqual(pendingResult, lastSentTestResult)
                  THEN /\ Len(outbox') = 1
                       /\ outbox'[1].type = "PROBLEM_UPDATE"
                       /\ outbox'[1].code = lastSentCode
                       /\ outbox'[1].testResult = pendingResult
                       /\ lastSentTestResult' = pendingResult
                  ELSE /\ ~Emits
                       /\ lastSentTestResult' = lastSentTestResult
     /\ (ResultResolve /\ DeepEqual(pendingResult, lastTestResult))
          => /\ ~Emits
             /\ UNCHANGED <<problemDetails, lastSentCode, lastTestResult,
                            lastSentTestResult>>]_vars

\* a poll has just delivered a new result and it went out with the code
\* sent before
C32_Witness ==
  /\ lastOp = "ResultResolve"
  /\ Len(outbox) = 1
  /\ outbox[1].testResult = lastTestResult
  /\ lastTestResult # NullRec
  /\ outbox[1].code = lastSentCode
  /\ lastSentCode = "a"

\* the keys discovered in the first Input block
GlobalKeys == parseInput(Blocks("Input")[1]).keys

\* the trimmed text of collapsed line n (counted from 0)
CollapsedLine(n) == TrimText(Blocks("Input")[2].lines[n + 1])

\* C33 as stated: on the collapsed path the input of case j maps the k-th
\* discovered key to the decoded value of collapsed line j*K + k (the raw
\* trimmed string when decoding fails) and has exactly K entries, for any
\* key list, repeated key names included.
C33_InputsByKey ==
  (parsed # NullRec /\ CollapsedPath /\ ~parsed.threw)
    => \A c \in 1..Len(parsed.cases) :
         LET input == parsed.cases[c].input
         IN  /\ Cardinality(DOMAIN input) = KeyCount
             /\ \A k \in 1..KeyCount :
                  /\ GlobalKeys[k] \in DOMAIN input
                  /\ input[GlobalKeys[k]] = Decode(CollapsedLine((c - 1) * KeyCount + (k - 1)))

\* the position of the first child that is or contains an example marker,
\* one past the last child when there is none
FirstExample(children) ==
  LET marked == {i \in 1..Len(children) : children[i].matches \/ children[i].contains}
  IN  IF marked = {} THEN Len(children) + 1
      ELSE CHOOSE i \in marked : \A k \in marked : i <= k

\* the markup of the first n children, concatenated
RECURSIVE Markup(_, _)
Markup(children, n) ==
  IF n = 0 THEN <<>> ELSE Markup(children, n - 1) \o children[n].outerHTML

\* C34: the description is the concatenated markup of exactly the children
\* that precede the first child which is or contains an example marker;
\* with no marker it is the markup of all children.
C34_DescriptionStopsAtExample ==
  (parsed # NullRec /\ doc.present)
    => parsed.description = Markup(doc.children, FirstExample(doc.children) - 1)

\* a page with a paragraph, then a nested example, then another paragraph
\* was parsed: the description is the first paragraph alone
C34_Witness ==
  /\ parsed # NullRec
  /\ doc.present
  /\ Len(doc.children) = 3
  /\ ~doc.children[1].matches /\ ~doc.children[1].contains
  /\ doc.children[2].contains
  /\ ~doc.children[3].matches /\ ~doc.children[3].contains
  /\ parsed.description = doc.children[1].outerHTML

\* C35: however often the button observer fires, the click handler is
\* attached at most once to a run-button element: the element's count of
\* attachments never exceeds one and does not change once the element is
\* marked; and a click on the run button leaves exactly one poll running.
C35_AttachedOnce ==
  /\ [](runButton.attached <= 1)
  /\ [][(runButton.marked /\ runButton'.present /\ runButton'.marked)
          => runButton'.attached = runButton.attached]_vars
  /\ [][RunClick => /\ Len(activeIntervals') = 1
                    /\ DOMAIN intervals' = Range(activeIntervals')]_vars

\* the observers have fired, the run button carries the handler once, and a
\* click on it has just started the one poll that is running
C35_Witness ==
  /\ lastOp = "RunClick"
  /\ debounceTimer # NoTimer
  /\ runButton.present /\ runButton.marked /\ runButton.listening
  /\ runButton.attached = 1
  /\ Len(activeIntervals) = 1
  /\ DOMAIN intervals = Range(activeIntervals)

\* the known details were parsed on the page of their own problem
DetailsOfOwnPage ==
  /\ problemDetails # NullRec
  /\ SlugOf(problemDetails.title) # Undefined
  /\ SlugOf(problemDetails.title) = storeSlug

\* C36 as stated: an update emitted on a problem-shaped location pairs a
\* problemSlug with the details of that same problem; in particular, after
\* the location has changed to another problem's path, no update carries
\* the new slug with the details parsed for the previous problem.
C36_SlugMatchesDetails ==
  [][(Emits /\ DetailsOfOwnPage /\ ProblemShaped(pathname))
       => outbox'[1].problemSlug = SlugOf(outbox'[1].title)]_vars

\* the result being delivered was found by a poll that was started before
\* the test-result memory was last reset for a new problem
DeliversStale ==
  /\ ResultResolve
  /\ lastOp = "Tick"
  /\ stalePolls \ DOMAIN intervals # {}

\* C37 as stated: a result found by a poll that was started before the
\* navigation reset is neither recorded as the last test result nor emitted
\* under the new problem's slug.
C37_NoStaleDelivery ==
  [][DeliversStale => /\ lastTestResult' = lastTestResult
                      /\ ~Emits]_vars

\* the code of the most recently emitted PROBLEM_UPDATE, null if none
LastEmittedCode == IF lastUpdate = NullRec THEN Null ELSE lastUpdate.code

\* C38: the last-sent code is always the code of the most recently emitted
\* PROBLEM_UPDATE (null before the first), and a step that emits nothing
\* leaves it unchanged.
C38_LastSentCodeIsLastEmitted ==
  /\ [](lastSentCode = LastEmittedCode)
  /\ [][~Emits => lastSentCode' = lastSentCode]_vars

\* after an update with a test result went out, a parse for a new problem
\* has reset the test-result memory without emitting: the last-sent code is
\* still the emitted one
C38_Witness ==
  /\ lastOp = "ParseResolve"
  /\ lastUpdate # NullRec
  /\ lastUpdate.testResult # NullRec
  /\ lastUpdate.title # TitleOf(problemDetails)
  /\ lastSentTestResult = NullRec
  /\ lastSentCode = lastUpdate.code

\* C40: a failed parse of the problem details is absorbed: the store's
\* problem slug becomes null, the known details, the last-sent code, the
\* recorded and the last-sent test result stay as they were, and nothing is
\* emitted.
C40_ParseFailureAbsorbed ==
  [][ParseReject => /\ storeSlug' = Null
                    /\ UNCHANGED <<problemDetails, lastSentCode, lastTestResult,
                                   lastSentTestResult>>
                    /\ ~Emits]_vars

\* the parse for another title has just failed while a problem, a sent code
\* and a sent test result were known: they still are, the store slug is null
C40_Witness ==
  /\ lastOp = "ParseReject"
  /\ storeSlug = Null
  /\ problemDetails # NullRec
  /\ domTitle # problemDetails.title
  /\ lastSentCode = "a"
  /\ lastTestResult # NullRec
  /\ lastSentTestResult = lastTestResult
  /\ outbox = <<>>

\* the recognised codes a failure text contains, by their place in the
\* order of the tests
SeveralCodes(text) == Cardinality(CodesFound(text)) > 1

\* C39: when the text of a provider failure contains more than one
\* recognised status code, the call throws the message of the one that
\* comes first in the order 400, 401, 403, 404, 429, 500/503, wherever
\* the codes stand in the text; the thrown error is the same for the
\* same text whether the request or the iteration failed and whatever
\* was emitted before.
C39_FirstMatchInOrder ==
  (position = "thrown" /\ failure \in ErrorFailures)
    => /\ thrown.name = "Error"
       /\ \A k \in CodesFound(failure.message) :
            (\A d \in CodesFound(failure.message) : k <= d)
              => thrown.message = StatusMessages[k].message
       /\ (SeveralCodes(failure.message)
             => \E k \in CodesFound(failure.message) :
                  /\ thrown.message = StatusMessages[k].message
                  /\ \E d \in CodesFound(failure.message) :
                       StatusMessages[d].message # thrown.message /\ k < d)
       /\ (CodesFound(failure.message) = {}
             => thrown.message = Unexpected(failure.message))

\* a failure text with 503 standing before 401 ended the call with the
\* authentication message
C39_Witness ==
  /\ position = "thrown"
  /\ failure = [kind |-> "Error", message |-> <<"5","0","3","/","4","0","1">>]
  /\ SeveralCodes(failure.message)
  /\ thrown = Thrown(AuthFailed)

====
